---- MODULE Spec2Model ----
(***************************************************************************)
(* Trial orchestration of skill-eval: EvalRunner.runEval, its sequential   *)
(* loop and runTrialsParallel, EvalRunner.runSingleTrial with withTimeout, *)
(* and the environment providers the runner drives.                        *)
(*                                                                         *)
(* JavaScript runs one continuation at a time, so every action below is    *)
(* the code that runs between two awaits: it starts where a promise        *)
(* settles and ends at the next await (or at the return).                  *)
(***************************************************************************)
EXTENDS Integers, Sequences, FiniteSets, TLC

(* ------------------------------ bounds --------------------------------- *)
MaxTrials == 3          \* numTrials ranges over 1..MaxTrials
MaxParallel == 3        \* parallel ranges over 1..MaxParallel
MaxCmds == 1            \* commands an agent issues through runCommand
AgentTrials == 2        \* numTrials and parallel where agents issue commands
NumDirNames == 2        \* distinct values Math.random() can give a tempDir
ScoreUnit == 2          \* scores are k/ScoreUnit, k in 0..ScoreUnit
DockerCalls == 2        \* trials that call DockerProvider.setup and cleanup
MaxClock == 2           \* Date.now() ranges over 1..MaxClock
MaxGraders == 2         \* grader results of one trial
MaxWeight == 2          \* grader weights range over 0..MaxWeight
MaxLen == 3             \* characters of a text that is parsed
MaxSecrets == 2         \* values of the environment given to runEval
MaxParts == 2           \* pieces a logged text is made of
MaxN == 5               \* trials, successes and attempts of the statistics
GainUnit == 4           \* pass rates given to calculateNormalizedGain are j/GainUnit
RateUnit == 2           \* pass rates of aggregated reports are j/RateUnit
MaxReports == 3         \* reports given to AnalyticsEngine.aggregate
MaxExitCode == 4        \* exit codes of a command range over 0..MaxExitCode
PhaseTrials == 1        \* trials of an evaluation whose phases are followed
MaxTasks == 2           \* evaluations that use one provider, each of its own task
MaxMs == 4              \* timeoutMs of a withTimeout call ranges over 1..MaxMs

Min(a, b) == IF a < b THEN a ELSE b
Max(a, b) == IF a < b THEN b ELSE a
TrialIds == 0..(Max(MaxTrials, AgentTrials) - 1)
WorkerIds == 1..Max(MaxParallel, AgentTrials)

(* --------------------------- values ------------------------------------ *)
\* A reward is the fraction n/d.
Zero == [n |-> 0, d |-> 1]

\* types.ts LogEntry: one record shape; text is the variant's payload.
LogEntry(type, text, value) == [type |-> type, text |-> text, value |-> value]

\* loadTaskConfig: the grader list it gives a task in the [verifier] format,
\* one deterministic grader of weight 1.0.
UnitGrader == [type |-> "deterministic", weight |-> 1]

\* The scores a grader returns here: failed and passed.
GraderScores == {0, ScoreUnit}

\* An unwritten slot of `new Array(numTrials)`.
NoResult == [trial_id |-> 0, reward |-> Zero, grader_results |-> <<>>, n_commands |-> 0]

RECURSIVE TotalWeight(_)
TotalWeight(grs) ==
    IF grs = <<>> THEN 0 ELSE Head(grs).weight + TotalWeight(Tail(grs))

RECURSIVE WeightedScore(_)
WeightedScore(grs) ==
    IF grs = <<>> THEN 0
    ELSE Head(grs).score * Head(grs).weight + WeightedScore(Tail(grs))

WeightedRewardUnguarded(grs) ==
    [n |-> WeightedScore(grs), d |-> TotalWeight(grs) * ScoreUnit]

\* runSingleTrial: totalWeight > 0 ? sum(score*weight)/totalWeight : 0
WeightedReward(grs) ==
    IF TotalWeight(grs) > 0
    THEN [n |-> WeightedScore(grs), d |-> TotalWeight(grs) * ScoreUnit]
    ELSE Zero

VARIABLES
    numTrials,      \* runEval argument
    parallel,       \* runEval argument
    providerKind,   \* "local" (LocalProvider) or "docker" (DockerProvider)
    graders,        \* taskConfig.graders
    evalState,      \* "init", "running", "returned", "threw"
    queue,          \* runTrialsParallel: the shared index queue
    trials,         \* runEval: trials / runTrialsParallel: results
    report,         \* the EvalReport runEval returns
    wcur,           \* per worker: the index it is running
    wstate,         \* per worker: "none", "busy", "exited", "threw"
    phase,          \* per trial: where runSingleTrial is
    workspace,      \* per trial: what provider.setup returned (0: nothing)
    sessionLog,     \* per trial: the sessionLog array
    commandCount,   \* per trial: commandCount
    graderResults,  \* per trial: graderResults
    trialResult,    \* per trial: the TrialResult object runSingleTrial returns
    agentState,     \* per trial: the promise agent.run returned
    timeoutState,   \* per trial: the promise withTimeout returned
    thrown,         \* per trial: the error raised in runSingleTrial ("": none)
    takenBy,        \* per trial: the worker that took the index (0: none)
    taken,          \* per trial: how many times the index was taken
    writes,         \* per trial: how many times its result slot was written
    setupCalls,     \* per trial: provider.setup calls
    cleanupCalls,   \* per trial: provider.cleanup calls
    cleanupArg,     \* per trial: the argument of the last provider.cleanup call
    cmdTargets,     \* <<trial, handle>> of every provider.runCommand call
    liveHandles,    \* handles set up and not yet cleaned up
    workersStarted, \* runTrialsParallel: workers created
    logDir,         \* EvalRunner.logDir is set
    sanitizedReport, \* runEval: what sanitize returned
    persistence,    \* where the saveReport call is
    disk,           \* the report files written to the log directory
    \* DockerProvider with imageRefCounts, and the docker daemon behind it
    clock,          \* Date.now()
    hasSkills,      \* skillsPaths.length > 0
    images,         \* daemon: the names of the images it holds
    containers,     \* daemon: per trial, its container (image 0: none)
    imageRefCounts, \* DockerProvider.imageRefCounts (0: no entry)
    dpc,            \* per trial: where its setup or cleanup call is
    imageName,      \* per trial: the imageName local of setup / of cleanup
    \* DockerProvider with preparedImage
    preparedImage,  \* DockerProvider.preparedImage (0: undefined)
    teardownPc,     \* where the teardown call is
    builds,         \* buildImage requests made by prepare
    injections,     \* skill injections started by prepare
    \* LocalProvider, and the file system behind it
    dirs,           \* the workspace directories that exist
    tempDir,        \* per trial: the tempDir of its setup call (0: none)
    \* every provider
    cleanupOfGone,  \* per trial: its cleanup call found the workspace gone
    taskPath,       \* the task of the evaluation that uses the provider
    imageTask,      \* per image name: the task prepare built it from (0: none)
    \* one call of a function of the program
    input,          \* its arguments and what it reads
    output          \* what it returned

vars == <<numTrials, parallel, providerKind, graders, evalState, queue, trials,
          report, wcur, wstate, phase, workspace, sessionLog, commandCount,
          graderResults, trialResult, agentState, timeoutState, thrown, takenBy,
          taken, writes, setupCalls, cleanupCalls, cleanupArg, cmdTargets,
          liveHandles, workersStarted, logDir, sanitizedReport, persistence,
          disk, clock, hasSkills, images, containers,
          imageRefCounts, dpc, imageName, preparedImage, teardownPc, builds,
          injections, dirs, tempDir, cleanupOfGone, taskPath, imageTask,
          input, output>>

preparedVars == <<preparedImage, teardownPc, builds, injections>>
callVars == <<input, output>>
localVars == <<dirs, tempDir>>
reuseVars == <<taskPath, imageTask>>
dockerVars == <<clock, hasSkills, images, containers, imageRefCounts, dpc,
                imageName, preparedVars, localVars, cleanupOfGone, reuseVars>>
runnerVars == <<numTrials, parallel, providerKind, graders, evalState, queue,
                trials, report, wcur, wstate, phase, workspace, sessionLog,
                commandCount, graderResults, trialResult, agentState,
                timeoutState, thrown, takenBy, taken, writes, setupCalls,
                cleanupCalls, cleanupArg, cmdTargets, liveHandles,
                workersStarted, logDir, sanitizedReport, persistence, disk>>
saveVars == <<logDir, sanitizedReport, persistence, disk>>

configVars == <<numTrials, parallel, providerKind, graders>>
schedVars == <<queue, wcur, wstate, phase, takenBy, taken, setupCalls>>
agentVars == <<agentState, timeoutState>>

\* Everything but runEval's arguments, before runEval is called.
Idle ==
    /\ evalState = "init"
    /\ queue = <<>>
    /\ trials = <<>>
    /\ report = <<>>
    /\ wcur = [w \in WorkerIds |-> 0]
    /\ wstate = [w \in WorkerIds |-> "none"]
    /\ phase = [i \in TrialIds |-> "pending"]
    /\ workspace = [i \in TrialIds |-> 0]
    /\ sessionLog = [i \in TrialIds |-> <<>>]
    /\ commandCount = [i \in TrialIds |-> 0]
    /\ graderResults = [i \in TrialIds |-> <<>>]
    /\ trialResult = [i \in TrialIds |-> NoResult]
    /\ agentState = [i \in TrialIds |-> "none"]
    /\ timeoutState = [i \in TrialIds |-> "none"]
    /\ thrown = [i \in TrialIds |-> ""]
    /\ takenBy = [i \in TrialIds |-> 0]
    /\ taken = [i \in TrialIds |-> 0]
    /\ writes = [i \in TrialIds |-> 0]
    /\ setupCalls = [i \in TrialIds |-> 0]
    /\ cleanupCalls = [i \in TrialIds |-> 0]
    /\ cleanupArg = [i \in TrialIds |-> 0]
    /\ cmdTargets = {}
    /\ liveHandles = {}
    /\ workersStarted = 0
    /\ sanitizedReport = <<>>
    /\ persistence = "none"
    /\ disk = <<>>

DockerTrials == 1..DockerCalls
\* the names of images: those of base images and those of committed images
ImageNames == 1..(2 * MaxClock)

NoInput == [fn |-> "none"]
NotCalled == [called |-> FALSE]
Returned(v) == [called |-> TRUE, value |-> v]
\* no function is under call
NoCall == input = NoInput /\ output = NotCalled
NoContainer == [image |-> 0, state |-> "none"]

\* A DockerProvider just constructed, on a daemon with no image of the task.
DockerIdle ==
    /\ clock = 1
    /\ hasSkills = FALSE
    /\ images = {}
    /\ containers = [t \in DockerTrials |-> NoContainer]
    /\ imageRefCounts = [n \in 1..MaxClock |-> 0]
    /\ dpc = [t \in DockerTrials |-> "idle"]
    /\ imageName = [t \in DockerTrials |-> 0]
    /\ preparedImage = 0
    /\ taskPath = 1
    /\ imageTask = [n \in ImageNames |-> 0]
    /\ teardownPc = "idle"
    /\ builds = 0
    /\ injections = 0
    /\ dirs = {}
    /\ tempDir = [t \in DockerTrials |-> 0]
    /\ cleanupOfGone = [t \in DockerTrials |-> FALSE]
    /\ NoCall

Init ==
    /\ numTrials \in 1..MaxTrials
    /\ parallel \in 1..MaxParallel
    /\ providerKind = "docker"
    /\ graders \in {<<>>, <<UnitGrader>>}
    /\ Idle
    /\ logDir = FALSE
    /\ DockerIdle

\* The same with agents that issue commands, under either provider.
InitAgent ==
    /\ numTrials \in 1..AgentTrials
    /\ parallel \in 1..AgentTrials
    /\ providerKind \in {"local", "docker"}
    /\ graders = <<UnitGrader>>
    /\ Idle
    /\ logDir = FALSE
    /\ DockerIdle

(* ------------------------- scheduling ---------------------------------- *)
\* The scheduling state as one value, so that the loops below can be folded.
Sched == [queue |-> queue, wcur |-> wcur, wstate |-> wstate, phase |-> phase,
          takenBy |-> takenBy, taken |-> taken, setupCalls |-> setupCalls]

SetSched(s) ==
    /\ queue' = s.queue
    /\ wcur' = s.wcur
    /\ wstate' = s.wstate
    /\ phase' = s.phase
    /\ takenBy' = s.takenBy
    /\ taken' = s.taken
    /\ setupCalls' = s.setupCalls

\* runSingleTrial up to its first await: provider.setup(...) is called.
BeginTrial(s, w, i) ==
    [s EXCEPT !.wcur[w] = i, !.wstate[w] = "busy", !.phase[i] = "setup",
              !.takenBy[i] = w, !.taken[i] = @ + 1, !.setupCalls[i] = @ + 1]

\* queue.shift(): what is left in the queue.
QueueKeepsHead(q) == q
QueueAfterShift(q) == Tail(q)

\* One turn of a worker's loop: while (queue.length > 0) { i = queue.shift(); ... }
WorkerLoop(s, w) ==
    IF Len(s.queue) > 0
    THEN BeginTrial([s EXCEPT !.queue = QueueAfterShift(s.queue)], w, Head(s.queue))
    ELSE [s EXCEPT !.wstate[w] = "exited"]

RECURSIVE SequentialLoopUnawaited(_, _, _)
\* the loop with runSingleTrial called and not awaited
SequentialLoopUnawaited(s, w, i) ==
    IF i >= numTrials THEN [s EXCEPT !.wstate[w] = "exited"]
    ELSE IF i + 1 < numTrials
         THEN BeginTrial(SequentialLoopUnawaited(s, w, i + 1), w, i)
         ELSE BeginTrial(s, w, i)

\* One turn of runEval's loop: for (let i = 0; i < numTrials; i++)
SequentialLoop(s, w, i) ==
    IF i < numTrials THEN BeginTrial(s, w, i) ELSE [s EXCEPT !.wstate[w] = "exited"]

\* Math.min(parallel, numTrials) workers.
WorkerCountIsParallel(p, n) == p
WorkerCount(p, n) == Min(p, n)

\* Array.from({length}, async () => ...): the callbacks run one after the other,
\* each up to its first await.
RECURSIVE SpawnWorkers(_, _, _)
SpawnWorkers(s, w, last) ==
    IF w > last THEN s ELSE SpawnWorkers(WorkerLoop(s, w), w + 1, last)

IsParallel == parallel > 1 /\ numTrials > 1


(* --------------------------- runEval ----------------------------------- *)
\* runTrialsParallel: results[i] = await this.runSingleTrial(..., i, ...)
ParallelStoreInCompletionOrder(ts, i, r) ==
    LET free == {k \in 1..Len(ts) : ts[k] = NoResult}
        k == IF free = {} THEN i + 1 ELSE CHOOSE x \in free : \A y \in free : x <= y
    IN [ts EXCEPT ![k] = r]
ParallelStore(ts, i, r) == [ts EXCEPT ![i + 1] = r]

\* runEval, sequential branch: trials.push(result)
SequentialStore(ts, i, r) == Append(ts, r)

\* runEval after loadTaskConfig: either runTrialsParallel up to its
\* `await Promise.all(workers)`, or the first turn of the sequential loop.
StartEval ==
    /\ evalState = "init"
    /\ evalState' = "running"
    /\ IF IsParallel
       THEN /\ trials' = [k \in 1..numTrials |-> NoResult]
            /\ workersStarted' = WorkerCount(parallel, numTrials)
            /\ SetSched(SpawnWorkers(
                   [Sched EXCEPT !.queue = [k \in 1..numTrials |-> k - 1]],
                   1, WorkerCount(parallel, numTrials)))
       ELSE /\ trials' = <<>>
            /\ workersStarted' = 0
            /\ SetSched(SequentialLoop(Sched, 1, 0))
    /\ UNCHANGED <<callVars, dockerVars, configVars, saveVars, report, workspace,
                   sessionLog, commandCount, graderResults, trialResult,
                   agentVars, thrown, writes, cleanupCalls, cleanupArg,
                   cmdTargets, liveHandles>>

(* ------------------------ runSingleTrial ------------------------------- *)
\* LocalProvider.setup names the directory after Math.random(), which may give
\* the same name twice. DockerProvider.setup returns container.id, which the
\* daemon makes unique: the container of trial i is given the id below.
SetupHandles(i) ==
    IF providerKind = "local"
    THEN 1..NumDirNames
    ELSE {NumDirNames + 1 + i}

\* `const workspace = await this.provider.setup(...)` returns; then up to
\* `await fs.readFile(instruction.md)`.
SetupReturns(i) ==
    /\ phase[i] = "setup"
    /\ \E h \in SetupHandles(i) :
        /\ workspace' = [workspace EXCEPT ![i] = h]
        /\ liveHandles' = liveHandles \cup {h}
    /\ phase' = [phase EXCEPT ![i] = "readInstr"]
    /\ UNCHANGED <<callVars, dockerVars, configVars, saveVars, evalState, queue, trials,
                   report, wcur, wstate, sessionLog, commandCount,
                   graderResults, trialResult, agentVars, takenBy, taken,
                   writes, setupCalls, cleanupCalls, cleanupArg, cmdTargets,
                   workersStarted, thrown>>

\* provider.setup rejects: the await is outside the try block, so the
\* exception leaves runSingleTrial, and with it the worker (or runEval's loop).
SetupThrows(i) ==
    /\ phase[i] = "setup"
    /\ thrown' = [thrown EXCEPT ![i] = "setup error"]
    /\ phase' = [phase EXCEPT ![i] = "setupFailed"]
    /\ wstate' = [wstate EXCEPT ![takenBy[i]] = "threw"]
    /\ UNCHANGED <<callVars, dockerVars, configVars, saveVars, evalState, queue, trials,
                   report, wcur, workspace, sessionLog, commandCount,
                   graderResults, trialResult, agentVars, takenBy, taken,
                   writes, setupCalls, cleanupCalls, cleanupArg, cmdTargets,
                   liveHandles, workersStarted>>

\* The finally block: `await this.provider.cleanup(workspace)` is called.
FinallySkipsCleanup(i) ==
    /\ cleanupCalls' = cleanupCalls
    /\ cleanupArg' = cleanupArg
    /\ phase' = [phase EXCEPT ![i] = "cleanup"]
Finally(i) ==
    /\ cleanupCalls' = [cleanupCalls EXCEPT ![i] = @ + 1]
    /\ cleanupArg' = [cleanupArg EXCEPT ![i] = workspace[i]]
    /\ phase' = [phase EXCEPT ![i] = "cleanup"]

\* The catch block, then the finally block. log is sessionLog as the try block
\* left it, err the error's message (err?.message || String(err)).
CatchOnlyCleansUp(i, log, err) ==
    /\ sessionLog' = [sessionLog EXCEPT ![i] = log]
    /\ trialResult' = trialResult
    /\ Finally(i)
Catch(i, log, err) ==
    /\ sessionLog' = [sessionLog EXCEPT ![i] =
                         Append(log, LogEntry("reward", err, Zero))]
    /\ trialResult' = [trialResult EXCEPT ![i] =
                          [trial_id |-> i + 1, reward |-> Zero,
                           grader_results |-> <<>>, n_commands |-> commandCount[i]]]
    /\ Finally(i)

\* The try block after the grader loop: reward, the TrialResult, then finally.
Complete(i, log, grs) ==
    /\ sessionLog' = [sessionLog EXCEPT ![i] =
                         Append(log, LogEntry("reward", "", WeightedReward(grs)))]
    /\ trialResult' = [trialResult EXCEPT ![i] =
                          [trial_id |-> i + 1, reward |-> WeightedReward(grs),
                           grader_results |-> grs, n_commands |-> commandCount[i]]]
    /\ Finally(i)

\* fs.readFile resolves: agent_start is logged, agent.run(...) is called and
\* withTimeout arms its timer.
InstructionRead(i) ==
    /\ phase[i] = "readInstr"
    /\ sessionLog' = [sessionLog EXCEPT ![i] = Append(@, LogEntry("agent_start", "instruction", Zero))]
    /\ agentState' = [agentState EXCEPT ![i] = "running"]
    /\ timeoutState' = [timeoutState EXCEPT ![i] = "pending"]
    /\ phase' = [phase EXCEPT ![i] = "agent"]
    /\ UNCHANGED <<callVars, dockerVars, configVars, saveVars, evalState, queue, trials,
                   report, wcur, wstate, workspace, commandCount,
                   graderResults, trialResult, takenBy, taken, writes,
                   setupCalls, cleanupCalls, cleanupArg, cmdTargets,
                   liveHandles, workersStarted, thrown>>

\* fs.readFile rejects.
InstructionThrows(i) ==
    /\ phase[i] = "readInstr"
    /\ thrown' = [thrown EXCEPT ![i] = "read error"]
    /\ Catch(i, sessionLog[i], thrown'[i])
    /\ UNCHANGED <<callVars, dockerVars, configVars, saveVars, evalState, queue, trials,
                   report, wcur, wstate, workspace, commandCount,
                   graderResults, agentVars, takenBy, taken, writes,
                   setupCalls, cmdTargets, liveHandles, workersStarted>>


(* ------------------- the agent and withTimeout ------------------------- *)
\* The agent calls its runCommand callback: loggedRunCommand up to
\* `await this.provider.runCommand(workspace, cmd, env)`.
AgentIssuesCommand(i) ==
    /\ agentState[i] = "running"
    /\ commandCount[i] < MaxCmds
    /\ agentState' = [agentState EXCEPT ![i] = "awaitCmd"]
    /\ cmdTargets' = cmdTargets \cup {<<i, workspace[i]>>}
    /\ UNCHANGED <<callVars, dockerVars, configVars, saveVars, evalState, trials,
                   report, schedVars, workspace, sessionLog, commandCount,
                   graderResults, trialResult, timeoutState, writes,
                   cleanupCalls, cleanupArg, liveHandles, workersStarted,
                   thrown>>

\* provider.runCommand resolves: the rest of loggedRunCommand.
AgentCommandReturns(i) ==
    /\ agentState[i] = "awaitCmd"
    /\ commandCount' = [commandCount EXCEPT ![i] = @ + 1]
    /\ sessionLog' = [sessionLog EXCEPT ![i] = Append(@, LogEntry("command", "cmd", Zero))]
    /\ agentState' = [agentState EXCEPT ![i] = "running"]
    /\ UNCHANGED <<callVars, dockerVars, configVars, saveVars, evalState, trials,
                   report, schedVars, workspace, graderResults, trialResult,
                   timeoutState, writes, cleanupCalls, cleanupArg, cmdTargets,
                   liveHandles, workersStarted, thrown>>

\* withTimeout's timer callback: reject(new Error(`${label} timed out ...`)).
\* What the promise withTimeout returned becomes when the timer fires first.
TimerResolves == "resolved"
TimerSettles == "timedout"

\* the trial with its grader loop left out
AfterAgentWithoutGraders(i) ==
    /\ Complete(i, Append(sessionLog[i], LogEntry("agent_result", "output", Zero)),
                <<>>)
    /\ UNCHANGED graderResults

\* The trial goes on after `await withTimeout(...)` resolved: agent_result is
\* logged and the grader loop starts (and, with no grader, ends).
AfterAgent(i) ==
    LET log == Append(sessionLog[i], LogEntry("agent_result", "output", Zero))
    IN IF Len(graders) = 0
       THEN /\ Complete(i, log, <<>>)
            /\ UNCHANGED graderResults
       ELSE /\ sessionLog' = [sessionLog EXCEPT ![i] = log]
            /\ phase' = [phase EXCEPT ![i] = "grading"]
            /\ UNCHANGED <<graderResults, trialResult, cleanupCalls, cleanupArg>>

\* agent.run's promise resolves. If withTimeout has not settled, it clears the
\* timer and resolves, and the trial goes on; otherwise nothing listens.
AgentResolves(i) ==
    /\ agentState[i] = "running"
    /\ agentState' = [agentState EXCEPT ![i] = "resolved"]
    /\ IF timeoutState[i] = "pending"
       THEN /\ timeoutState' = [timeoutState EXCEPT ![i] = "resolved"]
            /\ AfterAgent(i)
       ELSE UNCHANGED <<timeoutState, sessionLog, phase, graderResults,
                        trialResult, cleanupCalls, cleanupArg>>
    /\ UNCHANGED <<callVars, dockerVars, configVars, saveVars, evalState, queue, trials,
                   report, wcur, wstate, workspace, commandCount, takenBy,
                   taken, writes, setupCalls, cmdTargets, liveHandles,
                   workersStarted, thrown>>

\* agent.run's promise rejects.
AgentRejects(i) ==
    /\ agentState[i] = "running"
    /\ agentState' = [agentState EXCEPT ![i] = "rejected"]
    /\ IF timeoutState[i] = "pending"
       THEN /\ timeoutState' = [timeoutState EXCEPT ![i] = "rejected"]
            /\ thrown' = [thrown EXCEPT ![i] = "agent error"]
            /\ Catch(i, sessionLog[i], thrown'[i])
       ELSE UNCHANGED <<timeoutState, thrown, sessionLog, phase, trialResult,
                        cleanupCalls, cleanupArg>>
    /\ UNCHANGED <<callVars, dockerVars, configVars, saveVars, evalState, queue, trials,
                   report, wcur, wstate, workspace, commandCount,
                   graderResults, takenBy, taken, writes, setupCalls,
                   cmdTargets, liveHandles, workersStarted>>

\* a timer that is never due
TimerNeverFires(i) ==
    /\ timeoutState[i] = "due"
    /\ UNCHANGED vars

\* The timer of agent.timeout_sec fires while withTimeout is unsettled. The
\* agent's promise is left as it is.
TimerFires(i) ==
    /\ timeoutState[i] = "pending"
    /\ thrown' = [thrown EXCEPT ![i] = "timed out"]
    /\ timeoutState' = [timeoutState EXCEPT ![i] = TimerSettles]
    /\ IF TimerSettles = "timedout"
       THEN /\ Catch(i, sessionLog[i], thrown'[i])
            /\ UNCHANGED graderResults
       ELSE AfterAgent(i)
    /\ UNCHANGED <<callVars, dockerVars, configVars, saveVars, evalState, queue, trials,
                   report, wcur, wstate, workspace, commandCount, agentState,
                   takenBy, taken, writes, setupCalls, cmdTargets,
                   liveHandles, workersStarted>>

(* ----------------------------- grading --------------------------------- *)
\* `await grader.grade(...)` resolves with a score: the result is pushed and
\* logged; after the last grader the reward is computed.
GraderReturns(i) ==
    /\ phase[i] = "grading"
    /\ \E score \in GraderScores :
        LET k == Len(graderResults[i]) + 1
            result == [grader_type |-> graders[k].type, score |-> score,
                       weight |-> graders[k].weight]
            grs == Append(graderResults[i], result)
            log == Append(sessionLog[i], LogEntry("grader", "details", Zero))
        IN /\ graderResults' = [graderResults EXCEPT ![i] = grs]
           /\ IF k = Len(graders)
              THEN Complete(i, log, grs)
              ELSE /\ sessionLog' = [sessionLog EXCEPT ![i] = log]
                   /\ UNCHANGED <<phase, trialResult, cleanupCalls, cleanupArg>>
    /\ UNCHANGED <<callVars, dockerVars, configVars, saveVars, evalState, queue, trials,
                   report, wcur, wstate, workspace, commandCount, agentVars,
                   takenBy, taken, writes, setupCalls, cmdTargets,
                   liveHandles, workersStarted, thrown>>

\* getGrader throws, or grader.grade rejects (a provider.runCommand or
\* fs.readFile inside it rejected).
GraderThrows(i) ==
    /\ phase[i] = "grading"
    /\ thrown' = [thrown EXCEPT ![i] = "grader error"]
    /\ Catch(i, sessionLog[i], thrown'[i])
    /\ UNCHANGED <<callVars, dockerVars, configVars, saveVars, evalState, queue, trials,
                   report, wcur, wstate, workspace, commandCount,
                   graderResults, agentVars, takenBy, taken, writes,
                   setupCalls, cmdTargets, liveHandles, workersStarted>>

(* ----------------------- cleanup and the loops ------------------------- *)
\* provider.cleanup resolves: runSingleTrial returns its TrialResult, the
\* caller stores it and takes the next turn of its loop.
CleanupReturns(i) ==
    /\ phase[i] = "cleanup"
    /\ liveHandles' = liveHandles \ {workspace[i]}
    /\ writes' = [writes EXCEPT ![i] = @ + 1]
    /\ LET done == [Sched EXCEPT !.phase[i] = "done"]
           w == takenBy[i]
       IN IF IsParallel
          THEN /\ trials' = ParallelStore(trials, i, trialResult[i])
               /\ SetSched(WorkerLoop(done, w))
          ELSE /\ trials' = SequentialStore(trials, i, trialResult[i])
               /\ SetSched(SequentialLoop(done, w, i + 1))
    /\ UNCHANGED <<callVars, dockerVars, configVars, saveVars, evalState, report,
                   workspace, sessionLog, commandCount, graderResults,
                   trialResult, agentVars, cleanupCalls, cleanupArg,
                   cmdTargets, workersStarted, thrown>>

StartedWorkers == {w \in WorkerIds : wstate[w] # "none"}

\* Promise.race in the place of Promise.all
FirstResolved(states) == \E w \in StartedWorkers : states[w] = "exited"

\* `await Promise.all(workers)` resolves, or the sequential loop ends
AllResolved(states) == \A w \in StartedWorkers : states[w] = "exited"

\* what sanitize returns for the report r (its texts are the subject of
\* Sanitize below)
SanitizedCopy(r) == [sanitized |-> TRUE, trials |-> r]

\* Promise.all(workers) resolved, or the sequential loop ended: runEval builds
\* the report; without a log directory it returns it, with one it sanitizes
\* it and calls saveReport, which runs up to `await fs.ensureDir`.
ReturnReport ==
    /\ evalState = "running"
    /\ AllResolved(wstate)
    /\ report' = trials
    /\ IF logDir
       THEN /\ sanitizedReport' = SanitizedCopy(trials)
            /\ persistence' = "ensureDir"
            /\ evalState' = "saving"
       ELSE /\ evalState' = "returned"
            /\ UNCHANGED <<sanitizedReport, persistence>>
    /\ UNCHANGED <<callVars, dockerVars, configVars, logDir, disk, queue,
                   trials, wcur, wstate, phase, workspace, sessionLog,
                   commandCount, graderResults, trialResult, agentVars,
                   takenBy, taken, writes, setupCalls, cleanupCalls,
                   cleanupArg, cmdTargets, liveHandles, workersStarted, thrown>>

saveFrame == <<callVars, dockerVars, configVars, logDir, sanitizedReport,
               queue, trials, report, wcur, wstate, phase, workspace,
               sessionLog, commandCount, graderResults, trialResult, agentVars,
               takenBy, taken, writes, setupCalls, cleanupCalls, cleanupArg,
               cmdTargets, liveHandles, workersStarted, thrown>>

\* saveReport: fs.ensureDir resolved, fs.writeJSON is requested
EnsureDirResolves ==
    /\ persistence = "ensureDir"
    /\ persistence' = "writeJSON"
    /\ UNCHANGED <<saveFrame, evalState, disk>>

\* saveReport: fs.ensureDir rejected; nothing catches it, runEval rejects
EnsureDirRejects ==
    /\ persistence = "ensureDir"
    /\ persistence' = "failed"
    /\ evalState' = "threw"
    /\ UNCHANGED <<saveFrame, disk>>

\* saveReport: fs.writeJSON resolved; runEval returns the report
WriteResolves ==
    /\ persistence = "writeJSON"
    /\ disk' = Append(disk, sanitizedReport)
    /\ persistence' = "written"
    /\ evalState' = "returned"
    /\ UNCHANGED saveFrame

\* saveReport: fs.writeJSON rejected; nothing catches it, runEval rejects
WriteRejects ==
    /\ persistence = "writeJSON"
    /\ persistence' = "failed"
    /\ evalState' = "threw"
    /\ UNCHANGED <<saveFrame, disk>>

\* A worker's promise rejected, so Promise.all rejects, or the exception left
\* the sequential loop: runEval rejects. The other workers keep running.
EvalThrows ==
    /\ evalState = "running"
    /\ \E w \in StartedWorkers : wstate[w] = "threw"
    /\ evalState' = "threw"
    /\ UNCHANGED <<callVars, dockerVars, configVars, saveVars, queue, trials, report,
                   wcur, wstate, phase, workspace, sessionLog, commandCount,
                   graderResults, trialResult, agentVars, takenBy, taken,
                   writes, setupCalls, cleanupCalls, cleanupArg, cmdTargets,
                   liveHandles, workersStarted, thrown>>

Next ==
    \/ StartEval
    \/ \E i \in TrialIds : SetupReturns(i)
    \/ \E i \in TrialIds : SetupThrows(i)
    \/ \E i \in TrialIds : InstructionRead(i)
    \/ \E i \in TrialIds : InstructionThrows(i)
    \/ \E i \in TrialIds : AgentResolves(i)
    \/ \E i \in TrialIds : AgentRejects(i)
    \/ \E i \in TrialIds : TimerFires(i)
    \/ \E i \in TrialIds : GraderReturns(i)
    \/ \E i \in TrialIds : GraderThrows(i)
    \/ \E i \in TrialIds : CleanupReturns(i)
    \/ ReturnReport
    \/ EvalThrows

Spec == Init /\ [][Next]_vars

\* The runner with agents that use their runCommand callback.
NextAgent ==
    \/ Next
    \/ \E i \in TrialIds : AgentIssuesCommand(i)
    \/ \E i \in TrialIds : AgentCommandReturns(i)

SpecAgent == InitAgent /\ [][NextAgent]_vars

\* The runner when setup, the graders and cleanup return and do not throw.
\* Every callback that is ready is run by the event loop, and the timer of
\* withTimeout fires unless it is cleared; nothing makes an agent finish.
InitLive ==
    /\ numTrials \in 1..AgentTrials
    /\ parallel \in 1..AgentTrials
    /\ providerKind = "docker"
    /\ graders \in {<<>>, <<UnitGrader>>}
    /\ Idle
    /\ logDir = FALSE
    /\ DockerIdle

NextLive ==
    \/ StartEval
    \/ \E i \in TrialIds : SetupReturns(i)
    \/ \E i \in TrialIds : InstructionRead(i)
    \/ \E i \in TrialIds : InstructionThrows(i)
    \/ \E i \in TrialIds : AgentResolves(i)
    \/ \E i \in TrialIds : AgentRejects(i)
    \/ \E i \in TrialIds : TimerFires(i)
    \/ \E i \in TrialIds : GraderReturns(i)
    \/ \E i \in TrialIds : CleanupReturns(i)
    \/ ReturnReport

EventLoop ==
    /\ WF_vars(StartEval)
    /\ WF_vars(ReturnReport)
    /\ \A i \in TrialIds :
           /\ WF_vars(SetupReturns(i))
           /\ WF_vars(InstructionRead(i) \/ InstructionThrows(i))
           /\ WF_vars(TimerFires(i))
           /\ WF_vars(GraderReturns(i))
           /\ WF_vars(CleanupReturns(i))

SpecLive == InitLive /\ [][NextLive]_vars /\ EventLoop

\* The runner on tasks with several graders of different kinds.
RubricGrader == [type |-> "llm_rubric", weight |-> MaxWeight]

GraderLists ==
    UNION {[1..n -> {UnitGrader, RubricGrader}] : n \in 0..MaxGraders}

InitPhases ==
    /\ numTrials \in 1..PhaseTrials
    /\ parallel \in 1..PhaseTrials
    /\ providerKind = "docker"
    /\ graders \in GraderLists
    /\ Idle
    /\ logDir = FALSE
    /\ DockerIdle

SpecPhases == InitPhases /\ [][Next]_vars

\* The runner with or without a log directory.
InitSave ==
    /\ numTrials \in 1..AgentTrials
    /\ parallel \in 1..AgentTrials
    /\ providerKind = "docker"
    /\ graders \in {<<>>, <<UnitGrader>>}
    /\ logDir \in BOOLEAN
    /\ Idle
    /\ DockerIdle

NextSave ==
    \/ Next
    \/ EnsureDirResolves
    \/ EnsureDirRejects
    \/ WriteResolves
    \/ WriteRejects

SpecSave == InitSave /\ [][NextSave]_vars


(* ------------- DockerProvider with imageRefCounts ----------------------- *)
(* One call of setup and, once it has returned, one call of cleanup per     *)
(* trial, as runSingleTrial issues them; the calls of different trials      *)
(* interleave at their awaits.  An image is known by its name, the          *)
(* container of trial t by t.                                               *)

InitDocker ==
    /\ numTrials = DockerCalls
    /\ parallel = DockerCalls
    /\ providerKind = "docker"
    /\ graders = <<>>
    /\ Idle
    /\ logDir = FALSE
    /\ clock = 1
    /\ hasSkills \in BOOLEAN
    /\ images = {}
    /\ containers = [t \in DockerTrials |-> NoContainer]
    /\ imageRefCounts = [n \in 1..MaxClock |-> 0]
    /\ dpc = [t \in DockerTrials |-> "idle"]
    /\ imageName = [t \in DockerTrials |-> 0]
    /\ preparedImage = 0
    /\ taskPath = 1
    /\ imageTask = [n \in ImageNames |-> 0]
    /\ teardownPc = "idle"
    /\ builds = 0
    /\ injections = 0
    /\ dirs = {}
    /\ tempDir = [t \in DockerTrials |-> 0]
    /\ cleanupOfGone = [t \in DockerTrials |-> FALSE]
    /\ NoCall

\* Time passes between two continuations.
ClockTicks ==
    /\ clock < MaxClock
    /\ clock' = clock + 1
    /\ UNCHANGED <<callVars, runnerVars, reuseVars, localVars, cleanupOfGone,
                   preparedVars, hasSkills, images, containers,
                   imageRefCounts, dpc, imageName>>

\* setup is called: the image name is taken from Date.now() and the build
\* is requested.
DockerSetupCalled(t) ==
    /\ dpc[t] = "idle"
    /\ imageName' = [imageName EXCEPT ![t] = clock]
    /\ dpc' = [dpc EXCEPT ![t] = "building"]
    /\ UNCHANGED <<callVars, runnerVars, reuseVars, localVars, cleanupOfGone,
                   preparedVars, clock, hasSkills, images, containers,
                   imageRefCounts>>

\* The build has finished without an error item: the daemon holds the image
\* under its name and createContainer is requested.
BuildSucceeds(t) ==
    /\ dpc[t] = "building"
    /\ images' = images \cup {imageName[t]}
    /\ dpc' = [dpc EXCEPT ![t] = "creating"]
    /\ UNCHANGED <<callVars, runnerVars, reuseVars, localVars, cleanupOfGone,
                   preparedVars, clock, hasSkills, containers, imageRefCounts,
                   imageName>>

\* followProgress rejects or reports an error item: setup throws.
BuildFails(t) ==
    /\ dpc[t] = "building"
    /\ dpc' = [dpc EXCEPT ![t] = "setupFailed"]
    /\ UNCHANGED <<callVars, runnerVars, reuseVars, localVars, cleanupOfGone,
                   preparedVars, clock, hasSkills, images, containers,
                   imageRefCounts, imageName>>

\* createContainer settles: the daemon creates the container when it holds
\* an image of that name, and refuses otherwise (setup throws).
CreateContainerSettles(t) ==
    /\ dpc[t] = "creating"
    /\ IF imageName[t] \in images
       THEN /\ containers' = [containers EXCEPT
                   ![t] = [image |-> imageName[t], state |-> "created"]]
            /\ dpc' = [dpc EXCEPT ![t] = "starting"]
       ELSE /\ dpc' = [dpc EXCEPT ![t] = "setupFailed"]
            /\ UNCHANGED containers
    /\ UNCHANGED <<callVars, runnerVars, reuseVars, localVars, cleanupOfGone,
                   preparedVars, clock, hasSkills, images, imageRefCounts,
                   imageName>>

\* imageRefCounts.set(imageName, (imageRefCounts.get(imageName) || 0) + 1)
RefCountUp(counts, name) == [counts EXCEPT ![name] = counts[name] + 1]

\* container.start resolves: the image is counted, then either skills are
\* injected or setup returns container.id.
StartResolves(t) ==
    /\ dpc[t] = "starting"
    /\ containers' = [containers EXCEPT ![t].state = "running"]
    /\ imageRefCounts' = RefCountUp(imageRefCounts, imageName[t])
    /\ dpc' = [dpc EXCEPT ![t] = IF hasSkills THEN "injecting" ELSE "ready"]
    /\ UNCHANGED <<callVars, runnerVars, reuseVars, localVars, cleanupOfGone,
                   preparedVars, clock, hasSkills, images, imageName>>

\* container.start rejects: setup throws, the created container stays.
StartRejects(t) ==
    /\ dpc[t] = "starting"
    /\ dpc' = [dpc EXCEPT ![t] = "setupFailed"]
    /\ UNCHANGED <<callVars, runnerVars, reuseVars, localVars, cleanupOfGone,
                   preparedVars, clock, hasSkills, images, containers,
                   imageRefCounts, imageName>>

\* All skills were copied into both discovery directories: setup returns.
InjectionDone(t) ==
    /\ dpc[t] = "injecting"
    /\ dpc' = [dpc EXCEPT ![t] = "ready"]
    /\ UNCHANGED <<callVars, runnerVars, reuseVars, localVars, cleanupOfGone,
                   preparedVars, clock, hasSkills, images, containers,
                   imageRefCounts, imageName>>

\* exec, createTarFromDir or putArchive rejects: setup throws after the
\* image was counted and with the container running.
InjectionFails(t) ==
    /\ dpc[t] = "injecting"
    /\ dpc' = [dpc EXCEPT ![t] = "setupFailed"]
    /\ UNCHANGED <<callVars, runnerVars, reuseVars, localVars, cleanupOfGone,
                   preparedVars, clock, hasSkills, images, containers,
                   imageRefCounts, imageName>>

\* the daemon holds the container
Exists(c) == c.state \in {"created", "running", "exited"}

\* cleanup(container.id) is called: container.inspect is requested.
DockerCleanupCalled(t) ==
    /\ dpc[t] = "ready"
    /\ dpc' = [dpc EXCEPT ![t] = "inspecting"]
    /\ imageName' = [imageName EXCEPT ![t] = 0]
    /\ cleanupOfGone' = [cleanupOfGone EXCEPT ![t] = ~Exists(containers[t])]
    /\ UNCHANGED <<callVars, runnerVars, reuseVars, localVars, preparedVars, clock,
                   hasSkills, images, containers, imageRefCounts>>

InspectedImageOfGone(c) == c.image
\* try { imageName = (await container.inspect()).Config.Image } catch {}
InspectedImage(c) == IF Exists(c) THEN c.image ELSE 0

\* inspect settles: imageName is info.Config.Image, the name the container
\* was created with, or stays undefined when the container is gone; kill is
\* requested.
InspectSettles(t) ==
    /\ dpc[t] = "inspecting"
    /\ imageName' = [imageName EXCEPT ![t] = InspectedImage(containers[t])]
    /\ dpc' = [dpc EXCEPT ![t] = "killing"]
    /\ UNCHANGED <<callVars, runnerVars, reuseVars, localVars, cleanupOfGone,
                   preparedVars, clock, hasSkills, images, containers,
                   imageRefCounts>>

\* kill settles (a rejection is swallowed): remove is requested.
KillSettles(t) ==
    /\ dpc[t] = "killing"
    /\ containers' = [containers EXCEPT
           ![t].state = IF @ = "running" THEN "exited" ELSE @]
    /\ dpc' = [dpc EXCEPT ![t] = "removing"]
    /\ UNCHANGED <<callVars, runnerVars, reuseVars, localVars, cleanupOfGone,
                   preparedVars, clock, hasSkills, images, imageRefCounts,
                   imageName>>

\* remaining = (imageRefCounts.get(imageName) || 1) - 1
Remaining(counts, name) == (IF counts[name] = 0 THEN 1 ELSE counts[name]) - 1

\* the same with a removal that leaves the container where it is
ContainerRemoveRefused(t) ==
    /\ dpc[t] = "removing"
    /\ IF imageName[t] # 0
       THEN /\ imageRefCounts' = [imageRefCounts EXCEPT
                   ![imageName[t]] = Remaining(imageRefCounts, imageName[t])]
            /\ dpc' = [dpc EXCEPT
                   ![t] = IF Remaining(imageRefCounts, imageName[t]) <= 0
                          THEN "removingImage" ELSE "cleaned"]
       ELSE /\ dpc' = [dpc EXCEPT ![t] = "cleaned"]
            /\ UNCHANGED imageRefCounts
    /\ UNCHANGED <<callVars, runnerVars, reuseVars, localVars, cleanupOfGone,
                   preparedVars, clock, hasSkills, images, imageName,
                   containers>>

\* container.remove settles (a rejection is swallowed).  With an image name
\* the count is lowered; at zero the entry is deleted and image.remove is
\* requested, otherwise cleanup returns.
ContainerRemoveSettles(t) ==
    /\ dpc[t] = "removing"
    /\ containers' = [containers EXCEPT
           ![t].state = IF Exists(containers[t]) THEN "removed" ELSE @]
    /\ IF imageName[t] # 0
       THEN /\ imageRefCounts' = [imageRefCounts EXCEPT
                   ![imageName[t]] = Remaining(imageRefCounts, imageName[t])]
            /\ dpc' = [dpc EXCEPT
                   ![t] = IF Remaining(imageRefCounts, imageName[t]) <= 0
                          THEN "removingImage" ELSE "cleaned"]
       ELSE /\ dpc' = [dpc EXCEPT ![t] = "cleaned"]
            /\ UNCHANGED imageRefCounts
    /\ UNCHANGED <<callVars, runnerVars, reuseVars, localVars, cleanupOfGone,
                   preparedVars, clock, hasSkills, images, imageName>>

\* image.remove({force: true}) settles: a forced removal by name takes the
\* name from the daemon also while containers created from it exist; a
\* rejection (no such image) is swallowed.  cleanup returns.
ImageRemoveSettles(t) ==
    /\ dpc[t] = "removingImage"
    /\ images' = images \ {imageName[t]}
    /\ dpc' = [dpc EXCEPT ![t] = "cleaned"]
    /\ UNCHANGED <<callVars, runnerVars, reuseVars, localVars, cleanupOfGone,
                   preparedVars, clock, hasSkills, containers, imageRefCounts,
                   imageName>>

NextDocker ==
    \/ ClockTicks
    \/ \E t \in DockerTrials : DockerSetupCalled(t)
    \/ \E t \in DockerTrials : BuildSucceeds(t)
    \/ \E t \in DockerTrials : BuildFails(t)
    \/ \E t \in DockerTrials : CreateContainerSettles(t)
    \/ \E t \in DockerTrials : StartResolves(t)
    \/ \E t \in DockerTrials : StartRejects(t)
    \/ \E t \in DockerTrials : InjectionDone(t)
    \/ \E t \in DockerTrials : InjectionFails(t)
    \/ \E t \in DockerTrials : DockerCleanupCalled(t)
    \/ \E t \in DockerTrials : InspectSettles(t)
    \/ \E t \in DockerTrials : KillSettles(t)
    \/ \E t \in DockerTrials : ContainerRemoveSettles(t)
    \/ \E t \in DockerTrials : ImageRemoveSettles(t)

SpecDocker == InitDocker /\ [][NextDocker]_vars

(* ------------- DockerProvider with preparedImage ------------------------ *)
(* runSingleTrial calls setup and, once it has returned, cleanup; setup     *)
(* calls prepare itself while preparedImage is undefined.  teardown is      *)
(* offered to the owner of the provider, who may call it when the trials    *)
(* are over.  The base image of a prepare call is known by the clock value  *)
(* in its name, the committed image by ReadyName of it.                     *)

ReadyName(baseName) == baseName + MaxClock

InitPrepared ==
    /\ numTrials = DockerCalls
    /\ parallel \in 1..DockerCalls
    /\ providerKind = "docker"
    /\ graders = <<>>
    /\ Idle
    /\ logDir = FALSE
    /\ clock = 1
    /\ hasSkills \in BOOLEAN
    /\ images = {}
    /\ containers = [t \in DockerTrials |-> NoContainer]
    /\ imageRefCounts = [n \in 1..MaxClock |-> 0]
    /\ dpc = [t \in DockerTrials |-> "idle"]
    /\ imageName = [t \in DockerTrials |-> 0]
    /\ preparedImage = 0
    /\ taskPath = 1
    /\ imageTask = [n \in ImageNames |-> 0]
    /\ teardownPc = "idle"
    /\ builds = 0
    /\ injections = 0
    /\ dirs = {}
    /\ tempDir = [t \in DockerTrials |-> 0]
    /\ cleanupOfGone = [t \in DockerTrials |-> FALSE]
    /\ NoCall

\* the trials whose runSingleTrial is between its setup call and the return
\* of its cleanup call
PreparedInFlight ==
    {t \in DockerTrials : dpc[t] \notin {"idle", "setupFailed", "cleaned"}}

\* the trials whose setup threw: the exception ends the sequential loop, or
\* the worker that ran the trial
PreparedFailed == {t \in DockerTrials : dpc[t] = "setupFailed"}

PreparedClockTicks ==
    /\ clock < MaxClock
    /\ clock' = clock + 1
    /\ UNCHANGED <<callVars, runnerVars, reuseVars, localVars, cleanupOfGone,
                   preparedVars, hasSkills, images, containers,
                   imageRefCounts, dpc, imageName>>

\* setup is called by a trial of one of the `parallel` workers, as long as
\* that worker has not ended with an exception.  With no prepared image it calls prepare, which names the base image from
\* Date.now() and requests the build; otherwise it requests a container of
\* the prepared image.
PreparedSetupCalled(t) ==
    /\ dpc[t] = "idle"
    /\ teardownPc = "idle"
    /\ Cardinality(PreparedInFlight) + Cardinality(PreparedFailed) < parallel
    /\ IF preparedImage = 0
       THEN /\ imageName' = [imageName EXCEPT ![t] = clock]
            /\ builds' = builds + 1
            /\ dpc' = [dpc EXCEPT ![t] = "building"]
       ELSE /\ imageName' = [imageName EXCEPT ![t] = preparedImage]
            /\ dpc' = [dpc EXCEPT ![t] = "creating"]
            /\ UNCHANGED builds
    /\ UNCHANGED <<callVars, runnerVars, reuseVars, localVars, cleanupOfGone, clock,
                   hasSkills, images, containers, imageRefCounts,
                   preparedImage, teardownPc, injections>>

\* prepare: the build has finished without an error item.  With skills the
\* throwaway container is requested; without, the base image becomes the
\* prepared image, prepare returns and setup requests its container.
PrepareBuildSucceeds(t) ==
    /\ dpc[t] = "building"
    /\ images' = images \cup {imageName[t]}
    /\ IF hasSkills
       THEN /\ dpc' = [dpc EXCEPT ![t] = "tmpCreating"]
            /\ UNCHANGED preparedImage
       ELSE /\ preparedImage' = imageName[t]
            /\ dpc' = [dpc EXCEPT ![t] = "creating"]
    /\ imageTask' = [imageTask EXCEPT ![imageName[t]] = taskPath]
    /\ UNCHANGED <<callVars, runnerVars, taskPath, localVars, cleanupOfGone, clock,
                   hasSkills, containers, imageRefCounts, imageName,
                   teardownPc, builds, injections>>

\* prepare: followProgress rejects or reports an error item; setup throws.
PrepareBuildFails(t) ==
    /\ dpc[t] = "building"
    /\ dpc' = [dpc EXCEPT ![t] = "setupFailed"]
    /\ UNCHANGED <<callVars, runnerVars, reuseVars, localVars, cleanupOfGone,
                   preparedVars, clock, hasSkills, images, containers,
                   imageRefCounts, imageName>>

\* prepare: the throwaway container is created from the base image and
\* started, and the injection of the skills begins; the daemon refuses the
\* container when it no longer holds the base image (setup throws).
TmpContainerSettles(t) ==
    /\ dpc[t] = "tmpCreating"
    /\ IF imageName[t] \in images
       THEN /\ injections' = injections + 1
            /\ dpc' = [dpc EXCEPT ![t] = "injecting"]
       ELSE /\ dpc' = [dpc EXCEPT ![t] = "setupFailed"]
            /\ UNCHANGED injections
    /\ UNCHANGED <<callVars, runnerVars, reuseVars, localVars, cleanupOfGone, clock,
                   hasSkills, images, containers, imageRefCounts, imageName,
                   preparedImage, teardownPc, builds>>

\* prepare: every skill is in both discovery directories and the commit has
\* resolved: the committed image is the prepared image.
CommitResolves(t) ==
    /\ dpc[t] = "injecting"
    /\ images' = images \cup {ReadyName(imageName[t])}
    /\ preparedImage' = ReadyName(imageName[t])
    /\ dpc' = [dpc EXCEPT ![t] = "discarding"]
    /\ imageTask' = [imageTask EXCEPT ![ReadyName(imageName[t])] = taskPath]
    /\ UNCHANGED <<callVars, runnerVars, taskPath, localVars, cleanupOfGone, clock,
                   hasSkills, containers, imageRefCounts, imageName,
                   teardownPc, builds, injections>>

\* prepare: exec, putArchive or commit rejects; setup throws.
PrepareInjectionFails(t) ==
    /\ dpc[t] = "injecting"
    /\ dpc' = [dpc EXCEPT ![t] = "setupFailed"]
    /\ UNCHANGED <<callVars, runnerVars, reuseVars, localVars, cleanupOfGone,
                   preparedVars, clock, hasSkills, images, containers,
                   imageRefCounts, imageName>>

\* prepare: the throwaway container is killed and removed and the base
\* image is removed (rejections are swallowed); prepare returns and setup
\* requests a container of what preparedImage holds now.
BaseImageDiscarded(t) ==
    /\ dpc[t] = "discarding"
    /\ images' = images \ {imageName[t]}
    /\ imageName' = [imageName EXCEPT ![t] = preparedImage]
    /\ dpc' = [dpc EXCEPT ![t] = "creating"]
    /\ UNCHANGED <<callVars, runnerVars, reuseVars, localVars, cleanupOfGone,
                   preparedVars, clock, hasSkills, containers,
                   imageRefCounts>>

\* setup: createContainer settles; the daemon creates the container when it
\* holds the image named in the request and refuses otherwise (setup
\* throws).  start is requested.
PreparedCreateSettles(t) ==
    /\ dpc[t] = "creating"
    /\ IF imageName[t] \in images
       THEN /\ containers' = [containers EXCEPT
                   ![t] = [image |-> imageName[t], state |-> "created"]]
            /\ dpc' = [dpc EXCEPT ![t] = "starting"]
       ELSE /\ dpc' = [dpc EXCEPT ![t] = "setupFailed"]
            /\ UNCHANGED containers
    /\ UNCHANGED <<callVars, runnerVars, reuseVars, localVars, cleanupOfGone,
                   preparedVars, clock, hasSkills, images, imageRefCounts,
                   imageName>>

\* setup: container.start resolves and setup returns container.id.
PreparedStartResolves(t) ==
    /\ dpc[t] = "starting"
    /\ containers' = [containers EXCEPT ![t].state = "running"]
    /\ dpc' = [dpc EXCEPT ![t] = "ready"]
    /\ UNCHANGED <<callVars, runnerVars, reuseVars, localVars, cleanupOfGone,
                   preparedVars, clock, hasSkills, images, imageRefCounts,
                   imageName>>

\* cleanup(container.id) is called: kill is requested.
PreparedCleanupCalled(t) ==
    /\ dpc[t] = "ready"
    /\ dpc' = [dpc EXCEPT ![t] = "killing"]
    /\ cleanupOfGone' = [cleanupOfGone EXCEPT ![t] = ~Exists(containers[t])]
    /\ UNCHANGED <<callVars, runnerVars, reuseVars, localVars, preparedVars, clock,
                   hasSkills, images, containers, imageRefCounts, imageName>>

\* cleanup: kill settles (a rejection is swallowed); remove is requested.
PreparedKillSettles(t) ==
    /\ dpc[t] = "killing"
    /\ containers' = [containers EXCEPT
           ![t].state = IF @ = "running" THEN "exited" ELSE @]
    /\ dpc' = [dpc EXCEPT ![t] = "removing"]
    /\ UNCHANGED <<callVars, runnerVars, reuseVars, localVars, cleanupOfGone,
                   preparedVars, clock, hasSkills, images, imageRefCounts,
                   imageName>>

\* cleanup: remove settles (a rejection is swallowed); cleanup returns and
\* leaves the image alone.
PreparedRemoveSettles(t) ==
    /\ dpc[t] = "removing"
    /\ containers' = [containers EXCEPT
           ![t].state = IF Exists(containers[t]) THEN "removed" ELSE @]
    /\ dpc' = [dpc EXCEPT ![t] = "cleaned"]
    /\ UNCHANGED <<callVars, runnerVars, reuseVars, localVars, cleanupOfGone,
                   preparedVars, clock, hasSkills, images, imageRefCounts,
                   imageName>>

\* no trial is in flight and none will be started any more
TrialsOver ==
    /\ PreparedInFlight = {}
    /\ \/ \A t \in DockerTrials : dpc[t] # "idle"
       \/ Cardinality(PreparedFailed) >= parallel

\* teardown is called after the trials: with a prepared image its removal
\* is requested, otherwise teardown returns.
TeardownCalled ==
    /\ teardownPc = "idle"
    /\ TrialsOver
    /\ teardownPc' = IF preparedImage # 0 THEN "removingImage" ELSE "done"
    /\ UNCHANGED <<callVars, runnerVars, reuseVars, localVars, cleanupOfGone, clock,
                   hasSkills, images, containers, imageRefCounts, dpc,
                   imageName, preparedImage, builds, injections>>

\* teardown: image.remove settles (a rejection is swallowed) and
\* preparedImage is cleared.
TeardownRemoveSettles ==
    /\ teardownPc = "removingImage"
    /\ images' = images \ {preparedImage}
    /\ preparedImage' = 0
    /\ teardownPc' = "done"
    /\ UNCHANGED <<callVars, runnerVars, reuseVars, localVars, cleanupOfGone, clock,
                   hasSkills, containers, imageRefCounts, dpc, imageName,
                   builds, injections>>

NextPrepared ==
    \/ PreparedClockTicks
    \/ \E t \in DockerTrials : PreparedSetupCalled(t)
    \/ \E t \in DockerTrials : PrepareBuildSucceeds(t)
    \/ \E t \in DockerTrials : PrepareBuildFails(t)
    \/ \E t \in DockerTrials : TmpContainerSettles(t)
    \/ \E t \in DockerTrials : CommitResolves(t)
    \/ \E t \in DockerTrials : PrepareInjectionFails(t)
    \/ \E t \in DockerTrials : BaseImageDiscarded(t)
    \/ \E t \in DockerTrials : PreparedCreateSettles(t)
    \/ \E t \in DockerTrials : PreparedStartResolves(t)
    \/ \E t \in DockerTrials : PreparedCleanupCalled(t)
    \/ \E t \in DockerTrials : PreparedKillSettles(t)
    \/ \E t \in DockerTrials : PreparedRemoveSettles(t)
    \/ TeardownCalled
    \/ TeardownRemoveSettles

SpecPrepared == InitPrepared /\ [][NextPrepared]_vars

\* The command line runs its tasks one after the other with one provider
\* and never calls teardown: when the trials of a task are over, runEval
\* is called for the next task, with the skills found in its directory.
NextTask ==
    /\ TrialsOver
    /\ taskPath < MaxTasks
    /\ taskPath' = taskPath + 1
    /\ hasSkills' \in BOOLEAN
    /\ dpc' = [t \in DockerTrials |-> "idle"]
    /\ containers' = [t \in DockerTrials |-> NoContainer]
    /\ imageName' = [t \in DockerTrials |-> 0]
    /\ cleanupOfGone' = [t \in DockerTrials |-> FALSE]
    /\ UNCHANGED <<callVars, runnerVars, localVars, preparedVars, clock,
                   images, imageRefCounts, imageTask>>

NextReuse ==
    \/ PreparedClockTicks
    \/ \E t \in DockerTrials : PreparedSetupCalled(t)
    \/ \E t \in DockerTrials : PrepareBuildSucceeds(t)
    \/ \E t \in DockerTrials : PrepareBuildFails(t)
    \/ \E t \in DockerTrials : TmpContainerSettles(t)
    \/ \E t \in DockerTrials : CommitResolves(t)
    \/ \E t \in DockerTrials : PrepareInjectionFails(t)
    \/ \E t \in DockerTrials : BaseImageDiscarded(t)
    \/ \E t \in DockerTrials : PreparedCreateSettles(t)
    \/ \E t \in DockerTrials : PreparedStartResolves(t)
    \/ \E t \in DockerTrials : PreparedCleanupCalled(t)
    \/ \E t \in DockerTrials : PreparedKillSettles(t)
    \/ \E t \in DockerTrials : PreparedRemoveSettles(t)
    \/ NextTask

SpecReuse == InitPrepared /\ [][NextReuse]_vars

(* ------------------------- LocalProvider -------------------------------- *)
(* A directory is known by the suffix Math.random() gave its name.          *)

\* setup is called: tempDir is named and ensureDir is requested.
LocalSetupCalled(t) ==
    /\ dpc[t] = "idle"
    /\ \E d \in 1..NumDirNames : tempDir' = [tempDir EXCEPT ![t] = d]
    /\ dpc' = [dpc EXCEPT ![t] = "ensuring"]
    /\ UNCHANGED <<callVars, runnerVars, reuseVars, preparedVars, clock, hasSkills,
                   images, containers, imageRefCounts, imageName, dirs,
                   cleanupOfGone>>

\* ensureDir settles: the directory exists (it may have existed before);
\* the copy of the task is requested.
EnsureDirSettles(t) ==
    /\ dpc[t] = "ensuring"
    /\ dirs' = dirs \cup {tempDir[t]}
    /\ dpc' = [dpc EXCEPT ![t] = "copying"]
    /\ UNCHANGED <<callVars, runnerVars, reuseVars, preparedVars, clock, hasSkills,
                   images, containers, imageRefCounts, imageName, tempDir,
                   cleanupOfGone>>

\* the task and the skills are copied (a copy creates the directory it
\* writes to); setup returns tempDir.
LocalCopySettles(t) ==
    /\ dpc[t] = "copying"
    /\ dirs' = dirs \cup {tempDir[t]}
    /\ dpc' = [dpc EXCEPT ![t] = "ready"]
    /\ UNCHANGED <<callVars, runnerVars, reuseVars, preparedVars, clock, hasSkills,
                   images, containers, imageRefCounts, imageName, tempDir,
                   cleanupOfGone>>

\* cleanup(workspacePath) is called: pathExists looks for the directory.
LocalCleanupCalled(t) ==
    /\ dpc[t] = "ready"
    /\ dpc' = [dpc EXCEPT
           ![t] = IF tempDir[t] \in dirs THEN "pathExists" ELSE "pathGone"]
    /\ cleanupOfGone' = [cleanupOfGone EXCEPT ![t] = tempDir[t] \notin dirs]
    /\ UNCHANGED <<callVars, runnerVars, reuseVars, localVars, preparedVars, clock,
                   hasSkills, images, containers, imageRefCounts, imageName>>

\* pathExists resolves true: remove is requested.
PathExistsResolves(t) ==
    /\ dpc[t] = "pathExists"
    /\ dpc' = [dpc EXCEPT ![t] = "removingDir"]
    /\ UNCHANGED <<callVars, runnerVars, reuseVars, localVars, cleanupOfGone,
                   preparedVars, clock, hasSkills, images, containers,
                   imageRefCounts, imageName>>

\* pathExists resolves false: cleanup returns.
PathGoneResolves(t) ==
    /\ dpc[t] = "pathGone"
    /\ dpc' = [dpc EXCEPT ![t] = "cleaned"]
    /\ UNCHANGED <<callVars, runnerVars, reuseVars, localVars, cleanupOfGone,
                   preparedVars, clock, hasSkills, images, containers,
                   imageRefCounts, imageName>>

\* remove resolves (also when the directory is gone by now): cleanup
\* returns.
DirRemoveSettles(t) ==
    /\ dpc[t] = "removingDir"
    /\ dirs' = dirs \ {tempDir[t]}
    /\ dpc' = [dpc EXCEPT ![t] = "cleaned"]
    /\ UNCHANGED <<callVars, runnerVars, reuseVars, preparedVars, clock, hasSkills,
                   images, containers, imageRefCounts, imageName, tempDir,
                   cleanupOfGone>>

(* ------------- cleanup calls beyond the runner's ------------------------ *)
(* The three providers under a caller that may call cleanup again on a     *)
(* handle, next to somebody else who may remove a workspace.                *)

InitCleanup ==
    /\ numTrials = DockerCalls
    /\ parallel = DockerCalls
    /\ providerKind \in {"local", "docker", "dockerPrepared"}
    /\ graders = <<>>
    /\ Idle
    /\ logDir = FALSE
    /\ clock = 1
    /\ hasSkills \in BOOLEAN
    /\ images = {}
    /\ containers = [t \in DockerTrials |-> NoContainer]
    /\ imageRefCounts = [n \in 1..MaxClock |-> 0]
    /\ dpc = [t \in DockerTrials |-> "idle"]
    /\ imageName = [t \in DockerTrials |-> 0]
    /\ preparedImage = 0
    /\ taskPath = 1
    /\ imageTask = [n \in ImageNames |-> 0]
    /\ teardownPc = "idle"
    /\ builds = 0
    /\ injections = 0
    /\ dirs = {}
    /\ tempDir = [t \in DockerTrials |-> 0]
    /\ cleanupOfGone = [t \in DockerTrials |-> FALSE]
    /\ NoCall

\* The caller holds the handle of a workspace that its cleanup call removed
\* and is about to call cleanup on it a second time.
CleanupDueAgain(t) ==
    /\ dpc[t] = "cleaned"
    /\ ~cleanupOfGone[t]
    /\ teardownPc = "idle"
    /\ dpc' = [dpc EXCEPT ![t] = "ready"]
    /\ UNCHANGED <<callVars, runnerVars, reuseVars, localVars, cleanupOfGone,
                   preparedVars, clock, hasSkills, images, containers,
                   imageRefCounts, imageName>>

\* Somebody else removes the workspace of a trial: its directory, or its
\* container.
RemovedByOther(t) ==
    /\ dpc[t] = "ready"
    /\ IF providerKind = "local"
       THEN /\ tempDir[t] \in dirs
            /\ dirs' = dirs \ {tempDir[t]}
            /\ UNCHANGED containers
       ELSE /\ Exists(containers[t])
            /\ containers' = [containers EXCEPT ![t].state = "removed"]
            /\ UNCHANGED dirs
    /\ UNCHANGED <<callVars, runnerVars, reuseVars, preparedVars, clock, hasSkills,
                   images, imageRefCounts, dpc, imageName, tempDir,
                   cleanupOfGone>>

NextLocal ==
    \/ \E t \in DockerTrials : LocalSetupCalled(t)
    \/ \E t \in DockerTrials : EnsureDirSettles(t)
    \/ \E t \in DockerTrials : LocalCopySettles(t)
    \/ \E t \in DockerTrials : LocalCleanupCalled(t)
    \/ \E t \in DockerTrials : PathExistsResolves(t)
    \/ \E t \in DockerTrials : PathGoneResolves(t)
    \/ \E t \in DockerTrials : DirRemoveSettles(t)

Uses(kind) == providerKind = kind

NextCleanup ==
    \/ \E t \in DockerTrials : Uses("local") /\ LocalSetupCalled(t)
    \/ \E t \in DockerTrials : Uses("local") /\ EnsureDirSettles(t)
    \/ \E t \in DockerTrials : Uses("local") /\ LocalCopySettles(t)
    \/ \E t \in DockerTrials : Uses("local") /\ LocalCleanupCalled(t)
    \/ \E t \in DockerTrials : Uses("local") /\ PathExistsResolves(t)
    \/ \E t \in DockerTrials : Uses("local") /\ PathGoneResolves(t)
    \/ \E t \in DockerTrials : Uses("local") /\ DirRemoveSettles(t)
    \/ Uses("docker") /\ ClockTicks
    \/ \E t \in DockerTrials : Uses("docker") /\ DockerSetupCalled(t)
    \/ \E t \in DockerTrials : Uses("docker") /\ BuildSucceeds(t)
    \/ \E t \in DockerTrials : Uses("docker") /\ BuildFails(t)
    \/ \E t \in DockerTrials : Uses("docker") /\ CreateContainerSettles(t)
    \/ \E t \in DockerTrials : Uses("docker") /\ StartResolves(t)
    \/ \E t \in DockerTrials : Uses("docker") /\ StartRejects(t)
    \/ \E t \in DockerTrials : Uses("docker") /\ InjectionDone(t)
    \/ \E t \in DockerTrials : Uses("docker") /\ InjectionFails(t)
    \/ \E t \in DockerTrials : Uses("docker") /\ DockerCleanupCalled(t)
    \/ \E t \in DockerTrials : Uses("docker") /\ InspectSettles(t)
    \/ \E t \in DockerTrials : Uses("docker") /\ KillSettles(t)
    \/ \E t \in DockerTrials : Uses("docker") /\ ContainerRemoveSettles(t)
    \/ \E t \in DockerTrials : Uses("docker") /\ ImageRemoveSettles(t)
    \/ Uses("dockerPrepared") /\ PreparedClockTicks
    \/ \E t \in DockerTrials : Uses("dockerPrepared") /\ PreparedSetupCalled(t)
    \/ \E t \in DockerTrials : Uses("dockerPrepared") /\ PrepareBuildSucceeds(t)
    \/ \E t \in DockerTrials : Uses("dockerPrepared") /\ PrepareBuildFails(t)
    \/ \E t \in DockerTrials : Uses("dockerPrepared") /\ TmpContainerSettles(t)
    \/ \E t \in DockerTrials : Uses("dockerPrepared") /\ CommitResolves(t)
    \/ \E t \in DockerTrials : Uses("dockerPrepared") /\ PrepareInjectionFails(t)
    \/ \E t \in DockerTrials : Uses("dockerPrepared") /\ BaseImageDiscarded(t)
    \/ \E t \in DockerTrials : Uses("dockerPrepared") /\ PreparedCreateSettles(t)
    \/ \E t \in DockerTrials : Uses("dockerPrepared") /\ PreparedStartResolves(t)
    \/ \E t \in DockerTrials : Uses("dockerPrepared") /\ PreparedCleanupCalled(t)
    \/ \E t \in DockerTrials : Uses("dockerPrepared") /\ PreparedKillSettles(t)
    \/ \E t \in DockerTrials : Uses("dockerPrepared") /\ PreparedRemoveSettles(t)
    \/ Uses("dockerPrepared") /\ TeardownCalled
    \/ Uses("dockerPrepared") /\ TeardownRemoveSettles
    \/ \E t \in DockerTrials : CleanupDueAgain(t)
    \/ \E t \in DockerTrials : RemovedByOther(t)

SpecCleanup == InitCleanup /\ [][NextCleanup]_vars

(* ------------------- the reward of a trial ------------------------------ *)
(* The reward computation of runSingleTrial applied to any list of grader  *)
(* results; a score k stands for k/ScoreUnit.                               *)

GraderResultSet ==
    [grader_type : {"deterministic"}, score : 0..ScoreUnit,
     weight : 0..MaxWeight]

GraderResultLists ==
    UNION {[1..n -> GraderResultSet] : n \in 0..MaxGraders}

\* a runner and providers that no call of this section touches
Quiet ==
    /\ numTrials = 1
    /\ parallel = 1
    /\ providerKind = "local"
    /\ graders = <<>>
    /\ Idle
    /\ logDir = FALSE
    /\ clock = 1
    /\ hasSkills = FALSE
    /\ images = {}
    /\ containers = [t \in DockerTrials |-> NoContainer]
    /\ imageRefCounts = [n \in 1..MaxClock |-> 0]
    /\ dpc = [t \in DockerTrials |-> "idle"]
    /\ imageName = [t \in DockerTrials |-> 0]
    /\ preparedImage = 0
    /\ taskPath = 1
    /\ imageTask = [n \in ImageNames |-> 0]
    /\ teardownPc = "idle"
    /\ builds = 0
    /\ injections = 0
    /\ dirs = {}
    /\ tempDir = [t \in DockerTrials |-> 0]
    /\ cleanupOfGone = [t \in DockerTrials |-> FALSE]

InitReward ==
    /\ Quiet
    /\ input \in {[fn |-> "reward", graderResults |-> grs] :
                     grs \in GraderResultLists}
    /\ output = NotCalled

\* the lines of runSingleTrial that follow the grader loop
ComputeReward ==
    /\ input.fn = "reward"
    /\ ~output.called
    /\ output' = Returned(WeightedReward(input.graderResults))
    /\ UNCHANGED <<runnerVars, dockerVars, input>>

NextReward == ComputeReward

SpecReward == InitReward /\ [][NextReward]_vars

(* ------------------- DeterministicGrader.grade -------------------------- *)
(* A text is a sequence of characters; a number is the fraction n/d with   *)
(* d > 0, or NaN.                                                           *)

Digits == {"0", "1", "5"}
Chars == Digits \cup {".", "-", " ", "x"}
Texts == UNION {[1..n -> Chars] : n \in 0..MaxLen}

NaN == [nan |-> TRUE]
Num(n, d) == [nan |-> FALSE, n |-> n, d |-> d]
SameNumber(x, y) == x.n * y.d = y.n * x.d

DigitValue(c) == CASE c = "0" -> 0 [] c = "1" -> 1 [] c = "5" -> 5

RECURSIVE TrimStart(_)
TrimStart(s) ==
    IF s # <<>> /\ Head(s) = " " THEN TrimStart(Tail(s)) ELSE s

RECURSIVE TrimEnd(_)
TrimEnd(s) ==
    IF s # <<>> /\ s[Len(s)] = " "
    THEN TrimEnd(SubSeq(s, 1, Len(s) - 1)) ELSE s

\* String.prototype.trim
Trim(s) == TrimEnd(TrimStart(s))

RECURSIVE DigitRun(_)
\* the number of decimal digits s starts with
DigitRun(s) ==
    IF s # <<>> /\ Head(s) \in Digits THEN 1 + DigitRun(Tail(s)) ELSE 0

RECURSIVE DecimalValue(_)
\* the value of a run of decimal digits
DecimalValue(s) ==
    IF s = <<>> THEN 0
    ELSE 10 * DecimalValue(SubSeq(s, 1, Len(s) - 1)) + DigitValue(s[Len(s)])

RECURSIVE Pow10(_)
Pow10(k) == IF k = 0 THEN 1 ELSE 10 * Pow10(k - 1)

\* parseFloat: leading white space is skipped, then the longest prefix that
\* is a decimal literal (sign, digits, point, digits) is read; NaN when that
\* prefix holds no digit.
ParseFloat(text) ==
    LET s == TrimStart(text)
        neg == s # <<>> /\ Head(s) = "-"
        body == IF neg THEN Tail(s) ELSE s
        ilen == DigitRun(body)
        rest == SubSeq(body, ilen + 1, Len(body))
        flen == IF rest # <<>> /\ Head(rest) = "." THEN DigitRun(Tail(rest))
                ELSE 0
        whole == DecimalValue(SubSeq(body, 1, ilen))
        frac == DecimalValue(SubSeq(rest, 2, flen + 1))
        magnitude == whole * Pow10(flen) + frac
    IN IF ilen + flen = 0 THEN NaN
       ELSE Num(IF neg THEN 0 - magnitude ELSE magnitude, Pow10(flen))

ClampNothing(v) == v
\* Math.max(0, Math.min(1, v))
Clamp01(v) ==
    IF v.n < 0 THEN Num(0, 1) ELSE IF v.n > v.d THEN Num(1, 1) ELSE v

\* DeterministicGrader.grade, given what its two runCommand calls returned
DeterministicGrade(exitCode, rewardCheck, weight) ==
    LET binary == IF exitCode = 0 THEN Num(1, 1) ELSE Num(0, 1)
        parsed == ParseFloat(Trim(rewardCheck.stdout))
    IN [grader_type |-> "deterministic",
        score |-> IF rewardCheck.exitCode = 0 /\ ~parsed.nan
                  THEN Clamp01(parsed) ELSE binary,
        weight |-> weight]

InitDeterministic ==
    /\ Quiet
    /\ input \in [fn : {"deterministic"}, exitCode : {0, 1},
                  rewardCheck : [exitCode : {0, 1}, stdout : Texts],
                  weight : {1}]
    /\ output = NotCalled

GradeDeterministic ==
    /\ input.fn = "deterministic"
    /\ ~output.called
    /\ output' = Returned(DeterministicGrade(input.exitCode,
                                             input.rewardCheck, input.weight))
    /\ UNCHANGED <<runnerVars, dockerVars, input>>

NextDeterministic == GradeDeterministic

SpecDeterministic == InitDeterministic /\ [][NextDeterministic]_vars

(* ------------- the deterministic graders of one trial ------------------- *)
(* The grader loop of runSingleTrial on a task whose graders are all       *)
(* deterministic.  The workspace is known by its logs/verifier/reward.txt: *)
(* the agent may have left one, and the command of a grader writes one or  *)
(* leaves the file as it is.  `output` holds the file and the results so   *)
(* far.                                                                     *)

NoFile == [exists |-> FALSE, text |-> <<>>]
File(text) == [exists |-> TRUE, text |-> text]
RewardFiles == {NoFile, File(<<"0">>), File(<<"1">>), File(<<"x">>)}

VerifierCommands == [exitCode : {0, 1}, writes : RewardFiles]
CommandLists ==
    UNION {[1..n -> VerifierCommands] : n \in 1..MaxGraders}

\* provider.runCommand(workspace, 'cat logs/verifier/reward.txt', env)
Cat(file) ==
    IF file.exists THEN [exitCode |-> 0, stdout |-> file.text]
    ELSE [exitCode |-> 1, stdout |-> <<>>]

\* the reward file after a command has run
FileAfter(file, command) ==
    IF command.writes.exists THEN command.writes ELSE file

InitWorkspace ==
    /\ Quiet
    /\ \E left \in RewardFiles : \E commands \in CommandLists :
           input = [fn |-> "graders", left |-> left, commands |-> commands]
    /\ output = NotCalled

\* the agent has returned and the grader loop begins
GraderLoopBegins ==
    /\ input.fn = "graders"
    /\ output = NotCalled
    /\ output' = Returned([file |-> input.left, results |-> <<>>])
    /\ UNCHANGED <<runnerVars, dockerVars, input>>

\* one turn of the loop: grader.grade runs its command and then cat
DeterministicGraderRuns ==
    /\ input.fn = "graders"
    /\ output # NotCalled
    /\ Len(output.value.results) < Len(input.commands)
    /\ LET command == input.commands[Len(output.value.results) + 1]
           file == FileAfter(output.value.file, command)
       IN output' = Returned(
              [file |-> file,
               results |-> Append(output.value.results,
                   DeterministicGrade(command.exitCode, Cat(file), 1))])
    /\ UNCHANGED <<runnerVars, dockerVars, input>>

NextWorkspace ==
    \/ GraderLoopBegins
    \/ DeterministicGraderRuns

SpecWorkspace == InitWorkspace /\ [][NextWorkspace]_vars

(* ------------------------ LLMGrader.grade ------------------------------- *)
(* The text of a response is a sequence of tokens: "{" and "}", "score"     *)
(* for a member "score": v of an object, and "x" for any other text.  The  *)
(* value v is a text of its own, read by parseFloat.                        *)

Raised == [raised |-> TRUE]

LLMResult(score, weight, details) ==
    [raised |-> FALSE, grader_type |-> "llm_rubric", score |-> score,
     weight |-> weight, details |-> details]

Responses ==
    {<<>>, <<"x">>, <<"{">>, <<"}", "{">>, <<"{", "}">>, <<"{", "x", "}">>,
     <<"{", "score", "}">>, <<"x", "{", "score", "}", "x">>,
     <<"{", "score", "}", "x", "{", "}">>}

Positions(text, token) == {k \in 1..Len(text) : text[k] = token}
First(S) == CHOOSE k \in S : \A j \in S : k <= j
Final(S) == CHOOSE k \in S : \A j \in S : j <= k

\* text.match(/\{[\s\S]*\}/): from the first "{" to the last "}" after it;
\* <<>> stands for null.
JsonMatch(text) ==
    LET opens == Positions(text, "{")
        closes == Positions(text, "}")
    IN IF opens # {} /\ closes # {} /\ First(opens) < Final(closes)
       THEN SubSeq(text, First(opens), Final(closes)) ELSE <<>>

\* JSON.parse of a matched text: an object when it is {} or {"score": v},
\* a SyntaxError otherwise.
JsonParses(match) == match \in {<<"{", "}">>, <<"{", "score", "}">>}

\* parseFloat(parsed.score) || 0
ScoreOrZero(match, scoreText) ==
    LET v == IF Positions(match, "score") # {} THEN ParseFloat(scoreText)
             ELSE NaN
    IN IF v.nan \/ v.n = 0 THEN Num(0, 1) ELSE v

\* LLMGrader.parseResponse
ParseResponse(text, scoreText, weight) ==
    LET match == JsonMatch(text)
    IN IF match # <<>> /\ JsonParses(match)
       THEN LLMResult(Clamp01(ScoreOrZero(match, scoreText)), weight,
                      "reasoning")
       ELSE LLMResult(Num(0, 1), weight, "failed to parse")

RejectionRaises(weight) == Raised
\* the catch block of callGemini and of callAnthropic
RejectionCaught(weight) == LLMResult(Num(0, 1), weight, "api error")

\* callGemini / callAnthropic, given how fetch and response.json settle
CallRemote(outcome, text, scoreText, weight) ==
    IF outcome = "rejects" THEN RejectionCaught(weight)
    ELSE ParseResponse(text, scoreText, weight)

ProvidersWithFallback(geminiKey, anthropicKey, outcome) ==
    IF geminiKey
    THEN IF outcome = "rejects" /\ anthropicKey
         THEN <<"gemini", "anthropic">> ELSE <<"gemini">>
    ELSE IF anthropicKey THEN <<"anthropic">> ELSE <<>>

\* if (apiKey) callGemini ... else if (anthropicKey) callAnthropic ...
Providers(geminiKey, anthropicKey, outcome) ==
    IF geminiKey THEN <<"gemini">>
    ELSE IF anthropicKey THEN <<"anthropic">> ELSE <<>>

\* LLMGrader.grade: its result and the remote providers it contacted
LLMGrade(in) ==
    LET contacted == Providers(in.geminiKey, in.anthropicKey, in.outcome)
    IN IF ~in.rubricExists
       THEN [result |-> LLMResult(Num(0, 1), in.weight, "rubric not found"),
             contacted |-> <<>>]
       ELSE IF contacted = <<>>
       THEN [result |-> LLMResult(Num(0, 1), in.weight, "no api key"),
             contacted |-> <<>>]
       ELSE [result |-> CallRemote(in.outcome, in.text, in.scoreText,
                                   in.weight),
             contacted |-> contacted]

InitLLM ==
    /\ Quiet
    /\ input \in [fn : {"llm_rubric"}, rubricExists : BOOLEAN,
                  geminiKey : BOOLEAN, anthropicKey : BOOLEAN,
                  outcome : {"rejects", "responds"}, text : Responses,
                  scoreText : Texts, weight : {1}]
    /\ output = NotCalled

GradeLLM ==
    /\ input.fn = "llm_rubric"
    /\ ~output.called
    /\ output' = Returned(LLMGrade(input))
    /\ UNCHANGED <<runnerVars, dockerVars, input>>

NextLLM == GradeLLM

SpecLLM == InitLLM /\ [][NextLLM]_vars

(* ------------------------ EvalRunner.sanitize --------------------------- *)
(* Texts are sequences of characters.  The report in memory is an object   *)
(* graph: `heap` maps the address of each text field to its text, and a    *)
(* report is known by the addresses of its fields.                          *)

Sentinel == <<"[", "R", "E", "D", "A", "C", "T", "E", "D", "]">>
MinSecretLength == 5

\* the values an environment is made of: an ordinary secret, one that
\* contains it, one written with letters of the sentinel, one of 5
\* characters, two that overlap the sentinel
SecretPool ==
    {<<"s", "e", "c", "r", "e", "t">>,
     <<"s", "e", "c", "r", "e", "t", "2">>,
     <<"S", "E", "C", "R", "E", "T">>,
     <<"s", "e", "c", "r", "e">>,
     <<"R", "E", "D", "A", "C", "T">>,
     <<"D", "]", "s", "e", "c", "r">>}

\* Object.values(env): up to MaxSecrets different values in insertion order
Environments ==
    UNION {{e \in [1..n -> SecretPool] :
               \A a \in 1..n : \A b \in 1..n : e[a] = e[b] => a = b} :
           n \in 0..MaxSecrets}

PartPool == SecretPool \cup {<<"x">>}

RECURSIVE Concat(_)
Concat(parts) == IF parts = <<>> THEN <<>> ELSE Head(parts) \o Concat(Tail(parts))

\* what a command, an agent or a grader may have written
LoggedTexts ==
    {Concat(parts) : parts \in UNION {[1..n -> PartPool] : n \in 0..MaxParts}}

\* the text fields sanitize visits
TextFields ==
    {"instruction", "command", "stdout", "stderr", "output",
     "grader_result.details", "details"}

StartsWith(text, s) == Len(text) >= Len(s) /\ SubSeq(text, 1, Len(s)) = s

RECURSIVE ReplaceFirst(_, _, _)
ReplaceFirst(text, s, by) ==
    IF Len(text) < Len(s) THEN text
    ELSE IF StartsWith(text, s)
         THEN by \o SubSeq(text, Len(s) + 1, Len(text))
         ELSE <<Head(text)>> \o ReplaceFirst(Tail(text), s, by)

RECURSIVE ReplaceAll(_, _, _)
\* text.split(s).join(by)
ReplaceAll(text, s, by) ==
    IF Len(text) < Len(s) THEN text
    ELSE IF StartsWith(text, s)
         THEN by \o ReplaceAll(SubSeq(text, Len(s) + 1, Len(text)), s, by)
         ELSE <<Head(text)>> \o ReplaceAll(Tail(text), s, by)

RECURSIVE Redact(_, _)
\* redact: one secret after the other, those longer than 5 characters
Redact(text, secrets) ==
    IF secrets = <<>> THEN text
    ELSE Redact(IF Len(Head(secrets)) > MinSecretLength
                THEN ReplaceAll(text, Head(secrets), Sentinel) ELSE text,
                Tail(secrets))

\* the report as runEval built it: one object, holding one logged text
ReportObject(field, text) == [field |-> field, text |-> text]

\* the report itself, where a copy was meant
SameObject(heap, ref) == [heap |-> heap, ref |-> ref]

\* JSON.parse(JSON.stringify(report)): a new object with the same content
DeepCopy(heap, ref) ==
    [heap |-> [heap EXCEPT !["copy"] = heap[ref]], ref |-> "copy"]

\* sanitize(report, env): the object it returns and the memory afterwards
Sanitize(heap, ref, hasEnv, secrets) ==
    IF ~hasEnv THEN [heap |-> heap, ref |-> ref]
    ELSE LET sanitized == DeepCopy(heap, ref)
         IN  [heap |-> [sanitized.heap EXCEPT
                           ![sanitized.ref].text = Redact(@, secrets)],
              ref |-> sanitized.ref]

\* the end of runEval: what is written to the log directory, and the report
\* the caller receives
SaveAndReturn(in) ==
    LET heap == [a \in {"report", "copy"} |-> ReportObject(in.field, in.text)]
        after == Sanitize(heap, "report", in.hasEnv, in.env)
    IN  [persisted |-> in.logDir,
         saved |-> IF in.logDir THEN after.heap[after.ref].text ELSE <<>>,
         report |-> IF in.logDir THEN after.heap["report"].text
                    ELSE heap["report"].text]

InitSanitize ==
    /\ Quiet
    /\ \E hasEnv \in BOOLEAN :
       \E env \in (IF hasEnv THEN Environments ELSE {<<>>}) :
       \E field \in TextFields : \E text \in LoggedTexts :
       \E hasLogDir \in BOOLEAN :
            input = [fn |-> "sanitize", hasEnv |-> hasEnv, env |-> env,
                     field |-> field, text |-> text, logDir |-> hasLogDir]
    /\ output = NotCalled

ReportFinished ==
    /\ input.fn = "sanitize"
    /\ output = NotCalled
    /\ output' = Returned(SaveAndReturn(input))
    /\ UNCHANGED <<runnerVars, dockerVars, input>>

NextSanitize == ReportFinished

SpecSanitize == InitSanitize /\ [][NextSanitize]_vars

(* ------------------- the statistics of the report ----------------------- *)
(* Numbers are exact fractions Num(n, d) with d > 0.                        *)

RECURSIVE Gcd(_, _)
Gcd(a, b) == IF b = 0 THEN a ELSE Gcd(b, a % b)

\* the fraction n/d in lowest terms
Lowest(n, d) ==
    LET g == Gcd(IF n < 0 THEN 0 - n ELSE n, d)
    IN  Num(n \div g, d \div g)

Times(x, y) == Lowest(x.n * y.n, x.d * y.d)
Minus(x, y) == Lowest(x.n * y.d - y.n * x.d, x.d * y.d)
One == Num(1, 1)

\* `n - c <= k` in the place of `n - c < k`
PassCertainAtEqual(n, c, k) == n - c <= k

\* calculatePassAtK: `if (n - c < k) return 1.0`
PassCertain(n, c, k) == n - c < k

RECURSIVE FailureLoop(_, _, _)
\* calculatePassAtK: `result` after the turns 0..i-1 of the loop
FailureLoop(n, c, i) ==
    IF i = 0 THEN One
    ELSE Times(FailureLoop(n, c, i - 1), Num(n - c - (i - 1), n - (i - 1)))

\* the product where 1 minus the product was meant
PassAtKOfFailure(n, c, k) ==
    IF PassCertain(n, c, k) THEN One ELSE FailureLoop(n, c, k)

CalculatePassAtK(n, c, k) ==
    IF PassCertain(n, c, k) THEN One ELSE Minus(One, FailureLoop(n, c, k))

RECURSIVE MathPow(_, _)
\* Math.pow(p, k) for an integer k >= 0
MathPow(p, k) == IF k = 0 THEN One ELSE Times(p, MathPow(p, k - 1))

\* the success rate where its k-th power was meant
PassPowKOfOne(n, c, k) == Num(c, n)

CalculatePassPowK(n, c, k) == MathPow(Num(c, n), k)

RECURSIVE Reduce(_)
\* trials.reduce((sum, t) => sum + t.reward, 0), rewards in units of 1/ScoreUnit
Reduce(rewards) ==
    IF rewards = <<>> THEN 0
    ELSE Reduce(SubSeq(rewards, 1, Len(rewards) - 1)) + rewards[Len(rewards)]

\* t.reward >= 0.5
Passed(reward) == 2 * reward >= ScoreUnit

\* the sum of the rewards where their mean was meant
PassRateOfSum(rewards, n) == Num(Reduce(rewards), ScoreUnit)

\* totalReward / numTrials
PassRate(rewards, n) == Num(Reduce(rewards), ScoreUnit * n)

\* runEval: the statistics of the EvalReport built from the trials
ReportStats(rewards, n) ==
    LET successes == Cardinality({i \in 1..Len(rewards) : Passed(rewards[i])})
    IN  [pass_rate |-> PassRate(rewards, n),
         successes |-> successes,
         pass_at_k |-> CalculatePassAtK(n, successes, n),
         pass_pow_k |-> CalculatePassPowK(n, successes, n)]

\* n trials, c of them successes, k attempts
StatArguments ==
    {a \in [n : 1..MaxN, c : 0..MaxN, k : 1..MaxN] : a.c <= a.n}

RewardLists == UNION {[1..n -> 0..ScoreUnit] : n \in 1..MaxN}

InitStats ==
    /\ Quiet
    /\ \/ \E fn \in {"passAtK", "passPowK"} : \E a \in StatArguments :
              input = [fn |-> fn, n |-> a.n, c |-> a.c, k |-> a.k]
       \/ \E rewards \in RewardLists :
              input = [fn |-> "report", rewards |-> rewards]
    /\ output = NotCalled

PassAtKCalled ==
    /\ input.fn = "passAtK"
    /\ output = NotCalled
    /\ output' = Returned(CalculatePassAtK(input.n, input.c, input.k))
    /\ UNCHANGED <<runnerVars, dockerVars, input>>

PassPowKCalled ==
    /\ input.fn = "passPowK"
    /\ output = NotCalled
    /\ output' = Returned(CalculatePassPowK(input.n, input.c, input.k))
    /\ UNCHANGED <<runnerVars, dockerVars, input>>

\* the trials array holds one result per trial when the report is built
ReportBuilt ==
    /\ input.fn = "report"
    /\ output = NotCalled
    /\ output' = Returned(ReportStats(input.rewards, Len(input.rewards)))
    /\ UNCHANGED <<runnerVars, dockerVars, input>>

NextStats ==
    \/ PassAtKCalled
    \/ PassPowKCalled
    \/ ReportBuilt

SpecStats == InitStats /\ [][NextStats]_vars

(* ------------------------- analytics/engine.ts -------------------------- *)

\* x / y for y > 0
Over(x, y) == Num(x.n * y.d, x.d * y.n)

\* 0 for every pWith where pWithout is 1
GainAtCeilingZero(pWith) == Num(0, 1)

\* calculateNormalizedGain: `pWith === 1 ? 0 : -1`
GainAtCeiling(pWith) == IF SameNumber(pWith, One) THEN Num(0, 1) ELSE Num(0 - 1, 1)

CalculateNormalizedGain(pWith, pWithout) ==
    IF SameNumber(pWithout, One) THEN GainAtCeiling(pWith)
    ELSE Over(Minus(pWith, pWithout), Minus(One, pWithout))

\* the names every object inherits from Object.prototype, of which a task
\* directory may bear one
PrototypeNames == {"constructor"}
TaskNames == {"task1", "task2"} \cup PrototypeNames

\* an EvalReport as aggregate reads it: pass_rate is rate/RateUnit
Reports == [task : TaskNames, rate : 0..RateUnit, hasSkills : BOOLEAN]

ReportLists == UNION {[1..n -> Reports] : n \in 0..MaxReports}

\* taskGroups: its own properties in insertion order, and whether a
\* TypeError was raised while it was filled
NoGroups == [raised |-> FALSE, own |-> <<>>]

OwnNames(groups) == {groups.own[k].task : k \in 1..Len(groups.own)}

\* taskGroups[name]: an own property, or what Object.prototype holds
Lookup(groups, name) ==
    IF name \in OwnNames(groups) THEN "group"
    ELSE IF name \in PrototypeNames THEN "inherited"
    ELSE "undefined"

\* the first loop body of aggregate; "TypeError" when push is called on the
\* undefined withSkill of an inherited value
AddReport(groups, r) ==
    LET found == Lookup(groups, r.task)
        made == IF found = "undefined"
                THEN Append(groups.own, [task |-> r.task, withSkill |-> <<>>,
                                         withoutSkill |-> <<>>])
                ELSE groups.own
        k == CHOOSE j \in 1..Len(made) : made[j].task = r.task
    IN  IF found = "inherited" THEN [groups EXCEPT !.raised = TRUE]
        ELSE IF r.hasSkills
             THEN [groups EXCEPT
                      !.own = [made EXCEPT ![k].withSkill = Append(@, r.rate)]]
             ELSE [groups EXCEPT
                      !.own = [made EXCEPT ![k].withoutSkill = Append(@, r.rate)]]

RECURSIVE GroupReports(_, _)
GroupReports(groups, reports) ==
    IF reports = <<>> \/ groups.raised THEN groups
    ELSE GroupReports(AddReport(groups, Head(reports)), Tail(reports))

\* `length > 0 ? reduce(...) / length : 0`
MeanOrZero(rates) ==
    IF Len(rates) > 0 THEN Num(Reduce(rates), RateUnit * Len(rates))
    ELSE Num(0, 1)

\* the second loop body of aggregate (the averages over the trials do not
\* enter normalizedGain and are left out)
StatsOf(group) ==
    LET avgWith == MeanOrZero(group.withSkill)
        avgWithout == MeanOrZero(group.withoutSkill)
    IN  [task |-> group.task,
         passRateWithSkill |-> avgWith,
         passRateNoSkill |-> avgWithout,
         normalizedGain |-> CalculateNormalizedGain(avgWith, avgWithout)]

Aggregate(reports) ==
    LET groups == GroupReports(NoGroups, reports)
    IN  IF groups.raised THEN [raised |-> TRUE, stats |-> <<>>]
        ELSE [raised |-> FALSE,
              stats |-> [k \in 1..Len(groups.own) |-> StatsOf(groups.own[k])]]

InitAnalytics ==
    /\ Quiet
    /\ \/ \E a \in 0..GainUnit : \E b \in 0..GainUnit :
              input = [fn |-> "gain", pWith |-> Num(a, GainUnit),
                       pWithout |-> Num(b, GainUnit)]
       \/ \E reports \in ReportLists :
              input = [fn |-> "aggregate", reports |-> reports]
    /\ output = NotCalled

GainCalled ==
    /\ input.fn = "gain"
    /\ output = NotCalled
    /\ output' = Returned(CalculateNormalizedGain(input.pWith, input.pWithout))
    /\ UNCHANGED <<runnerVars, dockerVars, input>>

AggregateCalled ==
    /\ input.fn = "aggregate"
    /\ output = NotCalled
    /\ output' = Returned(Aggregate(input.reports))
    /\ UNCHANGED <<runnerVars, dockerVars, input>>

NextAnalytics ==
    \/ GainCalled
    \/ AggregateCalled

SpecAnalytics == InitAnalytics /\ [][NextAnalytics]_vars

(* ------------------------------ runCommand ------------------------------ *)
(* What one runCommand call returns, given what the child process or the    *)
(* docker daemon did.  `fate` is what happened to the command: it could not *)
(* be started, it exited with a code, or it ended with no exit code (killed *)
(* by a signal; ExitCode null in what exec.inspect returns).                *)

CommandResult(stdout, stderr, exitCode) ==
    [raised |-> FALSE, stdout |-> stdout, stderr |-> stderr,
     exitCode |-> exitCode]

\* the call rejected
Rejected == [raised |-> TRUE, stdout |-> "", stderr |-> "", exitCode |-> 0 - 1]

\* null where an exit code is expected
NoCode == 0 - 1

\* `code ?? 1`, `result.ExitCode ?? 0`
OrElse(code, default) == IF code = NoCode THEN default ELSE code

ExitCodes == 0..MaxExitCode
Outputs == {"", "text"}

LocalFates == {"spawnError", "exited", "signalled"}
DockerFates == {"execRejects", "startRejects", "streamError", "exited",
                "noExitCode"}

\* LocalProvider.runCommand: the promise is resolved by the first of the
\* 'error' and 'close' events; a spawn error comes before any output
LocalRunCommand(fate, code, stdout, stderr) ==
    CASE fate = "spawnError" -> CommandResult("", "", 1)
      [] fate = "exited" -> CommandResult(stdout, stderr, OrElse(code, 1))
      [] fate = "signalled" -> CommandResult(stdout, stderr, OrElse(NoCode, 1))

\* DockerProvider.runCommand: the stream carries stdout and stderr together
\* (Tty); a rejected await makes the call reject
DockerRunCommand(fate, code, stdout, stderr) ==
    CASE fate \in {"execRejects", "startRejects", "streamError"} -> Rejected
      [] fate = "exited" -> CommandResult(stdout \o stderr, "", OrElse(code, 0))
      [] fate = "noExitCode" ->
             CommandResult(stdout \o stderr, "", OrElse(NoCode, 0))

InitCommand ==
    /\ Quiet
    /\ \E kind \in {"local", "docker"} :
       \E fate \in (IF kind = "local" THEN LocalFates ELSE DockerFates) :
       \E code \in ExitCodes : \E stdout \in Outputs : \E stderr \in Outputs :
           input = [fn |-> "runCommand", provider |-> kind, fate |-> fate,
                    code |-> code, stdout |-> stdout, stderr |-> stderr]
    /\ output = NotCalled

LocalCommandRuns ==
    /\ input.fn = "runCommand"
    /\ input.provider = "local"
    /\ output = NotCalled
    /\ output' = Returned(LocalRunCommand(input.fate, input.code, input.stdout,
                                          input.stderr))
    /\ UNCHANGED <<runnerVars, dockerVars, input>>

DockerCommandRuns ==
    /\ input.fn = "runCommand"
    /\ input.provider = "docker"
    /\ output = NotCalled
    /\ output' = Returned(DockerRunCommand(input.fate, input.code, input.stdout,
                                           input.stderr))
    /\ UNCHANGED <<runnerVars, dockerVars, input>>

NextCommand ==
    \/ LocalCommandRuns
    \/ DockerCommandRuns

SpecCommand == InitCommand /\ [][NextCommand]_vars

(* ----------------------------- withTimeout ------------------------------ *)
(* One call withTimeout(promise, timeoutMs, label).  `output` holds the     *)
(* promise it returned together with the state of its closure: the promise *)
(* it was given, the timer, the time gone by since the call, and every     *)
(* call of resolve and reject in the order they were made.  The reaction   *)
(* of promise.then is a microtask: it runs before any timer callback that  *)
(* has not started when the promise settles.                               *)

Pending == [state |-> "pending", value |-> ""]
Resolved(v) == [state |-> "resolved", value |-> v]
RejectedWith(e) == [state |-> "rejected", value |-> e]
TimedOut == RejectedWith("timed out")

AgentOutputs == {"out", "other"}
AgentErrors == {"error"}

\* a timer that clearTimeout leaves as it is
KeepTimer(timer) == timer

\* clearTimeout(timer)
ClearTimeout(timer) == IF timer = "armed" THEN "cleared" ELSE timer

\* resolve(val) and reject(err) of `new Promise`: the first call settles the
\* promise, a later call does nothing
Settle(returned, outcome) ==
    IF returned = Pending THEN outcome ELSE returned

WithTimeoutCalled ==
    /\ input.fn = "withTimeout"
    /\ output = NotCalled
    /\ output' = Returned([returned |-> Pending, promise |-> Pending,
                           timer |-> "armed", elapsed |-> 0, calls |-> <<>>])
    /\ UNCHANGED <<runnerVars, dockerVars, input>>

TimePasses ==
    /\ input.fn = "withTimeout"
    /\ output # NotCalled
    /\ output.value.elapsed < MaxMs
    /\ output' = Returned([output.value EXCEPT !.elapsed = @ + 1])
    /\ UNCHANGED <<runnerVars, dockerVars, input>>

\* the timer callback: reject(new Error(`${label} timed out ...`))
TimerCallback ==
    /\ input.fn = "withTimeout"
    /\ output # NotCalled
    /\ output.value.timer = "armed"
    /\ output.value.elapsed >= input.timeoutMs
    /\ output' = Returned([output.value EXCEPT
           !.timer = "fired",
           !.calls = Append(@, TimedOut),
           !.returned = Settle(@, TimedOut)])
    /\ UNCHANGED <<runnerVars, dockerVars, input>>

\* the promise settles and its reaction runs: clearTimeout(timer), then
\* resolve(val) or reject(err)
PromiseSettles ==
    /\ input.fn = "withTimeout"
    /\ output # NotCalled
    /\ output.value.promise = Pending
    /\ \E outcome \in {Resolved(v) : v \in AgentOutputs}
                       \cup {RejectedWith(e) : e \in AgentErrors} :
           output' = Returned([output.value EXCEPT
               !.promise = outcome,
               !.timer = ClearTimeout(@),
               !.calls = Append(@, outcome),
               !.returned = Settle(@, outcome)])
    /\ UNCHANGED <<runnerVars, dockerVars, input>>

InitTimeout ==
    /\ Quiet
    /\ \E ms \in 1..MaxMs : input = [fn |-> "withTimeout", timeoutMs |-> ms]
    /\ output = NotCalled

NextTimeout ==
    \/ WithTimeoutCalled
    \/ TimePasses
    \/ TimerCallback
    \/ PromiseSettles

SpecTimeout == InitTimeout /\ [][NextTimeout]_vars

(* ======================= properties of the runner ====================== *)
Last(q) == q[Len(q)]
FullReward == [n |-> ScoreUnit, d |-> ScoreUnit]

\* Trials whose setup has been called and whose cleanup has not returned.
InFlight == {i \in TrialIds : phase[i] \in {"setup", "readInstr", "agent", "grading", "cleanup"}}
\* Trials that hold a workspace: setup returned, cleanup has not.
Holding == {i \in TrialIds : phase[i] \in {"readInstr", "agent", "grading", "cleanup"}}
\* Trials whose runSingleTrial has produced its TrialResult.
Ended == {i \in TrialIds : trialResult[i] # NoResult}
Done == {i \in TrialIds : phase[i] = "done"}

\* C1: for every workspace provider.setup returned, provider.cleanup is invoked
\* on that workspace exactly once, on every way out of the trial: not while
\* the try block runs, once as soon as the trial has its result (normal end,
\* instruction error, agent error, agent timeout, grader error), never twice.
C1_CleanupExactlyOnce ==
    \A i \in TrialIds :
        /\ cleanupCalls[i] <= 1
        /\ phase[i] \in {"readInstr", "agent", "grading"} => cleanupCalls[i] = 0
        /\ workspace[i] # 0 /\ (i \in Ended \/ i \in Done \/ phase[i] = "cleanup")
              => cleanupCalls[i] = 1 /\ cleanupArg[i] = workspace[i]
        /\ cleanupCalls[i] = 1 => workspace[i] # 0

\* Three trials have ended, one by a grader error, one by an agent timeout and
\* one normally, and each was cleaned up once.
C1_Witness ==
    \E i, j, k \in Done :
        /\ thrown[i] = "grader error" /\ thrown[j] = "timed out" /\ thrown[k] = ""
        /\ cleanupCalls[i] = 1 /\ cleanupCalls[j] = 1 /\ cleanupCalls[k] = 1

\* C2: when provider.setup throws for a trial, provider.cleanup is still
\* invoked for that trial: it has been by the time the exception has left
\* runSingleTrial.
C2_SetupFailureStillCleansUp ==
    \A i \in TrialIds : thrown[i] = "setup error" => cleanupCalls[i] >= 1

\* C3: a setup failure is fatal to its trial only: once runEval has finished
\* it has returned a report that holds every trial 0..numTrials-1, the failed
\* one with reward 0 and no grader results.
C3_SetupFailureIsLocal ==
    (evalState \in {"returned", "threw"} /\ \E i \in TrialIds : thrown[i] = "setup error")
        => /\ evalState = "returned"
           /\ Len(report) = numTrials
           /\ \A i \in 0..(numTrials - 1) :
                /\ report[i + 1].trial_id = i + 1
                /\ thrown[i] = "setup error"
                      => report[i + 1].reward = Zero /\ report[i + 1].grader_results = <<>>

\* C4: when reading the instruction, the agent or a grader throws after setup
\* succeeded, runSingleTrial does not throw: it returns a TrialResult with
\* trial_id = index + 1 and reward 0, the session log ends with a reward entry
\* of value 0 that carries the error text, cleanup is invoked after that, and
\* the result reaches the caller. Only a setup error ever leaves a worker.
TryErrors == {"read error", "agent error", "grader error"}
C6_ReportOrderedByTrialId ==
    evalState = "returned" =>
        /\ Len(report) = numTrials
        /\ \A k \in 1..numTrials : report[k].trial_id = k

\* Three trials on three workers, and on two workers where the second worker
\* finished trial 1 (and so took trial 2) before the first finished trial 0.
C6_Witness ==
    /\ evalState = "returned" /\ IsParallel /\ numTrials = 3
    /\ parallel = 2 /\ takenBy[2] = 2
    /\ \A k \in 1..3 : report[k].trial_id = k

\* C7: runTrialsParallel starts exactly min(parallel, numTrials) workers, at
\* most that many trials are in flight at any moment, and a worker never has
\* two trials in flight (it takes its next index after cleanup returned).
C7_BoundedWorkers ==
    (IsParallel /\ evalState # "init") =>
        /\ workersStarted = Min(parallel, numTrials)
        /\ Cardinality(StartedWorkers) = Min(parallel, numTrials)
        /\ Cardinality(InFlight) <= Min(parallel, numTrials)
        /\ \A i, j \in InFlight : takenBy[i] = takenBy[j] => i = j
        /\ \A i \in InFlight : wcur[takenBy[i]] = i /\ wstate[takenBy[i]] = "busy"

\* Fewer workers than trials: all of them are busy, one with its second trial
\* after its first is done.
C7_Witness ==
    /\ IsParallel /\ parallel < numTrials
    /\ workersStarted = parallel /\ Cardinality(InFlight) = parallel
    /\ \E i \in Done, j \in InFlight : takenBy[i] = takenBy[j]

\* C8: in runTrialsParallel every index is taken from the queue by at most one
\* worker and is never in the queue once taken, each result slot is written
\* at most once and only for a taken index, and when runTrialsParallel has
\* returned every index 0..numTrials-1 was taken once and written once.
C8_EachIndexTakenOnce ==
    IsParallel =>
        /\ \A i \in TrialIds :
            /\ taken[i] <= 1 /\ writes[i] <= 1
            /\ writes[i] <= taken[i]
            /\ writes[i] = 1 => trials[i + 1] = trialResult[i]
        /\ \A k \in 1..Len(queue) : taken[queue[k]] = 0
        /\ \A k, m \in 1..Len(queue) : queue[k] = queue[m] => k = m
        /\ evalState = "returned" =>
              \A i \in 0..(numTrials - 1) : taken[i] = 1 /\ writes[i] = 1

\* runTrialsParallel returned with three slots written by two workers.
C8_Witness ==
    /\ IsParallel /\ evalState = "returned" /\ numTrials = 3 /\ parallel = 2
    /\ \A i \in 0..2 : taken[i] = 1 /\ writes[i] = 1
    /\ \E i, j \in 0..2 : i # j /\ takenBy[i] = takenBy[j]

\* C9: no workspace handle is used by more than one trial at a time: two
\* trials that hold a workspace at the same moment hold distinct ones, and
\* every runCommand of a trial targets the workspace its own setup returned.
C9_WorkspaceExclusive ==
    /\ \A i \in Holding : \A j \in Holding :
           workspace[i] = workspace[j] => i = j
    /\ \A c \in cmdTargets : c[2] = workspace[c[1]]

(* ================= properties of the counting DockerProvider ============ *)

\* the trials whose setup has returned and whose cleanup was not yet called
DockerRunning == {t \in DockerTrials : dpc[t] = "ready"}

\* C10: under any interleaving of setup and cleanup calls, the image a
\* still-running trial's container was created from has not been removed by
\* the cleanup of another trial.
C10_ImageKeptWhileReferenced ==
    \A t \in DockerRunning : containers[t].image \in images

(* ============ properties of the DockerProvider with preparedImage ======= *)

\* C11: the prepared image of an evaluation outlives every trial that used
\* it and is deleted exactly once after the last trial's cleanup: while a
\* trial holds a container its image is in the daemon, and when every trial
\* has run through its cleanup and teardown has returned, no image of the
\* evaluation is left.
C11_PreparedImageLifetime ==
    /\ \A t \in DockerTrials :
           dpc[t] = "ready" => containers[t].image \in images
    /\ ((\A t \in DockerTrials : dpc[t] = "cleaned") /\ teardownPc = "done")
           => images = {}

\* C12: on one provider the image is built and the skills are injected at
\* most once per evaluation, whatever the interleaving of the setup calls.
C12_BuiltAtMostOnce == builds <= 1 /\ injections <= 1

(* ===================== properties of provider.cleanup =================== *)

\* what the providers and the systems behind them hold
ProviderState == <<images, imageRefCounts, containers, dirs, preparedImage>>

CleanupPcs == {"inspecting", "killing", "removing", "removingImage",
               "pathExists", "pathGone", "removingDir"}

\* C13: cleanup is idempotent for every provider: a cleanup call on a
\* workspace that is gone (cleaned up before, or removed by somebody else)
\* takes its steps to the return without raising and changes no state; in
\* particular it lowers no image reference count.
C13_CleanupIdempotent ==
    [][\A t \in DockerTrials :
          (cleanupOfGone[t] /\ dpc[t] \in CleanupPcs /\ dpc'[t] # dpc[t])
              => /\ ProviderState' = ProviderState
                 /\ dpc'[t] \in CleanupPcs \cup {"cleaned"}]_vars

\* A second cleanup call has returned on the counting DockerProvider while
\* another trial still runs in a container of the same image.
C13_Witness ==
    /\ providerKind = "docker"
    /\ \E t \in DockerTrials : \E u \in DockerTrials \ {t} :
          /\ cleanupOfGone[t] /\ dpc[t] = "cleaned"
          /\ dpc[u] = "ready" /\ Exists(containers[u])
          /\ containers[u].image = containers[t].image
          /\ imageRefCounts[containers[u].image] = 1

(* ======================= properties of the reward ======================= *)

RECURSIVE SumTo(_, _)
\* f[1] + ... + f[n]
SumTo(f, n) == IF n = 0 THEN 0 ELSE f[n] + SumTo(f, n - 1)

SumOfWeights(grs) == SumTo([k \in 1..Len(grs) |-> grs[k].weight], Len(grs))
SumOfProducts(grs) ==
    SumTo([k \in 1..Len(grs) |-> grs[k].score * grs[k].weight], Len(grs))

\* C14: reward = sum(score_i * weight_i) / sum(weight_i) when the total
\* weight is positive and 0 when it is 0 (an empty grader list included);
\* it is a number in [0,1].  A reward is the fraction n/d and a score k
\* stands for k/ScoreUnit.
C14_RewardIsWeightedMean ==
    (input.fn = "reward" /\ output.called) =>
        LET grs == input.graderResults
            r == output.value
        IN /\ r.d > 0
           /\ 0 <= r.n /\ r.n <= r.d
           /\ SumOfWeights(grs) > 0 =>
                  r.n * ScoreUnit * SumOfWeights(grs) = SumOfProducts(grs) * r.d
           /\ SumOfWeights(grs) = 0 => r.n = 0

\* A reward strictly between 0 and 1 was computed from two graders of
\* different positive weights.
C14_Witness ==
    /\ input.fn = "reward" /\ output.called
    /\ Len(input.graderResults) = 2
    /\ 0 < input.graderResults[1].weight
    /\ input.graderResults[1].weight < input.graderResults[2].weight
    /\ 0 < output.value.n /\ output.value.n < output.value.d

(* ======================= properties of the graders ====================== *)

\* the fraction a/b equals the fraction c/d
\* C15: DeterministicGrader.grade returns clamp(v, 0, 1) whenever the reward
\* file was read (cat exited 0) and its content parses as a float v,
\* whatever the exit code of the verification command; otherwise 1 if the
\* command exited 0 and 0 if it did not.
C15_RewardFileWins ==
    (input.fn = "deterministic" /\ output.called) =>
        LET v == ParseFloat(Trim(input.rewardCheck.stdout))
            score == output.value.score
        IN /\ ~score.nan /\ score.d > 0
           /\ IF input.rewardCheck.exitCode = 0 /\ ~v.nan
              THEN /\ v.n < 0 => score.n = 0
                   /\ v.n > v.d => score.n = score.d
                   /\ (0 <= v.n /\ v.n <= v.d) => SameNumber(score, v)
              ELSE IF input.exitCode = 0 THEN score.n = score.d
                   ELSE score.n = 0

\* The command exited 0 and the reward file holds a number strictly between
\* 0 and 1, which is the score.
C15_Witness ==
    /\ input.fn = "deterministic" /\ output.called
    /\ input.exitCode = 0 /\ input.rewardCheck.exitCode = 0
    /\ 0 < output.value.score.n
    /\ output.value.score.n < output.value.score.d

\* the trial has logged the agent's result, so its grader loop was entered
ReachedGrading(i) ==
    \E k \in 1..Len(sessionLog[i]) : sessionLog[i][k].type = "agent_result"

\* C16: a GraderResult is never absent: the TrialResult of every trial that
\* reached the grading phase carries exactly one GraderResult per
\* configured grader, in declared order; a grader that fails internally
\* gives a result of score 0 and does not raise past the grader.
C16_OneResultPerGrader ==
    \A i \in Ended :
        ReachedGrading(i) =>
            /\ thrown[i] # "grader error"
            /\ Len(trialResult[i].grader_results) = Len(graders)
            /\ \A k \in 1..Len(graders) :
                   trialResult[i].grader_results[k].grader_type
                       = graders[k].type

\* some stretch of the text is a JSON object
HasJsonObject(text) ==
    \E a \in 1..Len(text) : \E b \in a..Len(text) :
        SubSeq(text, a, b) \in {<<"{", "}">>, <<"{", "score", "}">>}

Occurs(s, text) ==
    \E k \in 1..Len(text) : StartsWith(SubSeq(text, k, Len(text)), s)

Redactable == {k \in 1..Len(input.env) : Len(input.env[k]) > MinSecretLength}

Saved == output.called /\ input.fn = "sanitize" /\ output.value.persisted

EndsWith(text, s) ==
    Len(text) >= Len(s) /\ SubSeq(text, Len(text) - Len(s) + 1, Len(text)) = s

\* an occurrence of s and an occurrence of the sentinel can share characters
OverlapsSentinel(s) ==
    \/ Occurs(s, Sentinel)
    \/ Occurs(Sentinel, s)
    \/ \E n \in 1..Len(s) : EndsWith(Sentinel, SubSeq(s, 1, n))
    \/ \E n \in 1..Len(s) : StartsWith(Sentinel, SubSeq(s, n, Len(s)))

C20_ReturnedReportUntouched ==
    (output.called /\ input.fn = "sanitize") => output.value.report = input.text

C20_Witness ==
    /\ Saved
    /\ output.value.saved # input.text
    /\ output.value.report = input.text

AllTrialsFinished == \A i \in 0..(numTrials - 1) : phase[i] = "done"

\* C21: a report is written to the log directory only when one is
\* configured, only after every trial has finished, at most once, and what is
\* written is what sanitize returned for the whole report.
C21_SanitizedBeforeSaved ==
    /\ Len(disk) <= 1
    /\ persistence # "none" => logDir /\ AllTrialsFinished
    /\ disk # <<>> =>
           /\ logDir
           /\ AllTrialsFinished
           /\ Len(report) = numTrials
           /\ disk[1] = SanitizedCopy(report)

C21_Witness ==
    /\ disk # <<>>
    /\ numTrials > 1
    /\ parallel > 1
    /\ evalState = "returned"

\* C22: when fs.ensureDir or fs.writeJSON fails in saveReport, runEval does
\* not reject: it returns the report with all trial results.
C22_SaveFailureDoesNotAbort ==
    persistence = "failed" => evalState # "threw"

RECURSIVE Falling(_, _)
\* m (m-1) ... (m-k+1)
Falling(m, k) == IF k = 0 THEN 1 ELSE (m - k + 1) * Falling(m, k - 1)

AtMost(x, y) == x.n * y.d <= y.n * x.d

CalledWith(fn) == input.fn = fn /\ output.called

\* C23: calculatePassAtK(n, c, k) is 1 when n - c < k and otherwise 1 minus
\* the product of (n-c-i)/(n-i) for i = 0..k-1; in the report, where
\* k = n = numTrials and c counts the trials of reward >= 0.5, it is 1 when
\* some trial succeeded and 0 when none did.
C23_PassAtK ==
    /\ CalledWith("passAtK") =>
           LET n == input.n
               c == input.c
               k == input.k
           IN  IF n - c < k
               THEN SameNumber(output.value, One)
               ELSE SameNumber(output.value,
                               Num(Falling(n, k) - Falling(n - c, k),
                                   Falling(n, k)))
    /\ CalledWith("report") =>
           SameNumber(output.value.pass_at_k,
                      IF \E i \in 1..Len(input.rewards) :
                             2 * input.rewards[i] >= ScoreUnit
                      THEN One ELSE Num(0, 1))

C23_Witness ==
    /\ CalledWith("passAtK")
    /\ input.n - input.c >= input.k
    /\ input.k >= 2
    /\ input.c >= 1
    /\ ~SameNumber(output.value, One)

\* C24: calculatePassPowK(n, c, k) is (c/n)^k for 0 <= c <= n, n >= 1,
\* k >= 1, and the report's pass_pow_k is that value for k = n = numTrials.
C24_PassPowK ==
    /\ CalledWith("passPowK") =>
           SameNumber(output.value, Num(input.c ^ input.k, input.n ^ input.k))
    /\ CalledWith("report") =>
           LET n == Len(input.rewards)
           IN  SameNumber(output.value.pass_pow_k,
                          Num(output.value.successes ^ n, n ^ n))

C24_Witness ==
    /\ CalledWith("passPowK")
    /\ input.n = MaxN
    /\ input.c = 3
    /\ input.k = MaxN
    /\ SameNumber(output.value, Num(3 ^ MaxN, MaxN ^ MaxN))

\* C25: for 1 <= k <= n both statistics do not decrease when the success
\* count c grows by one, and both lie in [0,1].
C25_Monotone ==
    /\ (CalledWith("passAtK") /\ input.k <= input.n) =>
           /\ AtMost(Num(0, 1), output.value)
           /\ AtMost(output.value, One)
           /\ input.c < input.n =>
                  AtMost(output.value,
                         CalculatePassAtK(input.n, input.c + 1, input.k))
    /\ (CalledWith("passPowK") /\ input.k <= input.n) =>
           /\ AtMost(Num(0, 1), output.value)
           /\ AtMost(output.value, One)
           /\ input.c < input.n =>
                  AtMost(output.value,
                         CalculatePassPowK(input.n, input.c + 1, input.k))

C25_Witness ==
    /\ CalledWith("passAtK")
    /\ input.k <= input.n
    /\ input.c < input.n
    /\ ~SameNumber(output.value,
                   CalculatePassAtK(input.n, input.c + 1, input.k))

\* C26: pass_rate is the sum of the rewards of the trials divided by
\* numTrials, a trial is a success exactly when its reward is at least 1/2,
\* and pass_rate lies in [0,1].
C26_PassRateIsMean ==
    CalledWith("report") =>
        LET rewards == input.rewards
            n == Len(rewards)
        IN  /\ SameNumber(output.value.pass_rate,
                          Num(SumTo(rewards, n), ScoreUnit * n))
            /\ output.value.successes =
                   Cardinality({i \in 1..n : 2 * rewards[i] >= ScoreUnit})
            /\ AtMost(Num(0, 1), output.value.pass_rate)
            /\ AtMost(output.value.pass_rate, One)

C26_Witness ==
    /\ CalledWith("report")
    /\ Len(input.rewards) >= 2
    /\ \E i \in 1..Len(input.rewards) :
           2 * input.rewards[i] >= ScoreUnit /\ input.rewards[i] < ScoreUnit
    /\ \E i \in 1..Len(input.rewards) : input.rewards[i] = 0
    /\ ~SameNumber(output.value.pass_rate, Num(0, 1))
    /\ ~SameNumber(output.value.pass_rate, One)

\* C27: calculateNormalizedGain(pWith, pWithout) is
\* (pWith - pWithout)/(1 - pWithout) when pWithout is not 1, and for
\* pWithout = 1 it is 0 if pWith = 1 and -1 otherwise; NG(1, 1/2) = 1,
\* NG(3/4, 1/2) = 1/2, NG(1/2, 1/2) = 0, NG(1/4, 1/2) = -1/2.
C27_NormalizedGain ==
    /\ CalledWith("gain") =>
           LET a == input.pWith.n
               b == input.pWithout.n
           IN  IF b # GainUnit
               THEN SameNumber(output.value, Num(a - b, GainUnit - b))
               ELSE SameNumber(output.value,
                               IF a = GainUnit THEN Num(0, 1) ELSE Num(0 - 1, 1))
    /\ SameNumber(CalculateNormalizedGain(Num(1, 1), Num(1, 2)), Num(1, 1))
    /\ SameNumber(CalculateNormalizedGain(Num(3, 4), Num(1, 2)), Num(1, 2))
    /\ SameNumber(CalculateNormalizedGain(Num(1, 2), Num(1, 2)), Num(0, 1))
    /\ SameNumber(CalculateNormalizedGain(Num(1, 4), Num(1, 2)), Num(0 - 1, 2))

C27_Witness ==
    /\ CalledWith("gain")
    /\ input.pWithout.n = GainUnit
    /\ input.pWith.n < GainUnit
    /\ SameNumber(output.value, Num(0 - 1, 1))

Selected(reports, task, skilled) ==
    {k \in 1..Len(reports) :
        reports[k].task = task /\ reports[k].hasSkills = skilled}

\* the mean of the pass rates of the reports at the positions ks, 0 for none
MeanAt(reports, ks) ==
    IF ks = {} THEN Num(0, 1)
    ELSE Num(SumTo([k \in 1..Len(reports) |->
                       IF k \in ks THEN reports[k].rate ELSE 0], Len(reports)),
             RateUnit * Cardinality(ks))

ExpectedGain(reports, task) ==
    CalculateNormalizedGain(MeanAt(reports, Selected(reports, task, TRUE)),
                            MeanAt(reports, Selected(reports, task, FALSE)))

\* C28: aggregate returns exactly one AggregateStats per distinct task name
\* of its reports, whose normalizedGain is calculateNormalizedGain of the mean
\* pass rate of the task's reports with skills and of those without (0 for an
\* empty group); as it depends only on which reports there are, it is the
\* same for every order of the reports.
C28_OneStatsPerTask ==
    CalledWith("aggregate") =>
        LET reports == input.reports
            stats == output.value.stats
            names == {reports[k].task : k \in 1..Len(reports)}
        IN  /\ ~output.value.raised
            /\ Len(stats) = Cardinality(names)
            /\ \A task \in names :
                   \E k \in 1..Len(stats) :
                       /\ stats[k].task = task
                       /\ SameNumber(stats[k].normalizedGain,
                                     ExpectedGain(reports, task))

NotStarted == input.fate \in {"spawnError", "execRejects", "startRejects"}

\* C29: runCommand returns exit code 1 with a diagnostic text when the
\* command could not be started, the command's own exit code when it exited,
\* and never exit code 0 for a command of which no exit code is known.
C29_InfrastructureFailureDistinguished ==
    CalledWith("runCommand") =>
        LET r == output.value
        IN  /\ ~r.raised
            /\ NotStarted => r.exitCode = 1 /\ r.stderr # ""
            /\ input.fate = "exited" => r.exitCode = input.code
            /\ input.fate \in {"signalled", "noExitCode", "streamError"}
                   => r.exitCode # 0

Sequential == parallel <= 1 \/ numTrials <= 1

InTrial(i) == phase[i] \notin {"pending", "done", "setupFailed"}

\* C30: in sequential mode provider.setup is called for trial i+1 only after
\* the cleanup of trial i has returned, so at most one trial is under way,
\* and every trial has had exactly one setup call, whose workspace is the one
\* it runs in and is live while it runs.
C30_SequentialTrialsDoNotOverlap ==
    Sequential =>
        /\ \A i \in TrialIds : setupCalls[i] <= 1
        /\ \A i \in 1..(numTrials - 1) :
               setupCalls[i] > 0 => phase[i - 1] = "done" /\ cleanupCalls[i - 1] = 1
        /\ \A i \in TrialIds : \A j \in TrialIds :
               (InTrial(i) /\ InTrial(j)) => i = j
        /\ \A i \in TrialIds :
               (InTrial(i) /\ phase[i] \notin {"setup", "cleanup"}) =>
                   /\ setupCalls[i] = 1
                   /\ workspace[i] # 0
                   /\ workspace[i] \in liveHandles

C30_Witness ==
    /\ Sequential
    /\ numTrials >= 2
    /\ phase[0] = "done"
    /\ InTrial(1)
    /\ workspace[1] \in liveHandles
    /\ workspace[1] # workspace[0]

UsesContainers == providerKind \in {"docker", "dockerPrepared"}

Rank(type) ==
    CASE type = "agent_start" -> 1
      [] type = "command" -> 2
      [] type = "agent_result" -> 3
      [] type = "grader" -> 4
      [] type = "reward" -> 5

RewardRecorded(i) ==
    /\ sessionLog[i] # <<>>
    /\ sessionLog[i][Len(sessionLog[i])].type = "reward"
    /\ trialResult[i].trial_id = i + 1
    /\ sessionLog[i][Len(sessionLog[i])].value = trialResult[i].reward

\* C32: the phases of a trial come in the order setup, instruction, agent,
\* graders, reward, cleanup: the log is in that order, a grader result exists
\* only when the agent operation has resolved, the k-th result is that of the
\* k-th configured grader, and provider.cleanup is called only when the reward
\* (the weighted one after all graders, or 0 after an error) is recorded.
C32_PhaseOrder ==
    \A i \in TrialIds :
        /\ phase[i] \notin {"pending", "setup", "setupFailed"} =>
               setupCalls[i] = 1 /\ workspace[i] # 0
        /\ agentState[i] # "none" =>
               sessionLog[i] # <<>> /\ sessionLog[i][1].type = "agent_start"
        /\ \A a \in 1..Len(sessionLog[i]) : \A b \in 1..Len(sessionLog[i]) :
               a < b => Rank(sessionLog[i][a].type) <= Rank(sessionLog[i][b].type)
        /\ (phase[i] = "grading" \/ graderResults[i] # <<>>) =>
               agentState[i] = "resolved" /\ timeoutState[i] = "resolved"
        /\ Len(graderResults[i]) <= Len(graders)
        /\ \A k \in 1..Len(graderResults[i]) :
               /\ graderResults[i][k].grader_type = graders[k].type
               /\ graderResults[i][k].weight = graders[k].weight
        /\ cleanupCalls[i] > 0 =>
               /\ phase[i] \in {"cleanup", "done"}
               /\ RewardRecorded(i)
               /\ IF thrown[i] = ""
                  THEN /\ Len(graderResults[i]) = Len(graders)
                       /\ trialResult[i].grader_results = graderResults[i]
                       /\ trialResult[i].reward = WeightedReward(graderResults[i])
                  ELSE trialResult[i].reward = Zero

C32_Witness ==
    \E i \in TrialIds :
        /\ phase[i] = "cleanup"
        /\ thrown[i] = ""
        /\ Len(graderResults[i]) = 2
        /\ graderResults[i][1].grader_type # graderResults[i][2].grader_type

(* ================= properties of a provider used again ================== *)

\* C33: a container that setup created is of an image that was built from
\* the task of the evaluation the trial belongs to, also in the later
\* evaluations of a provider that is used for several tasks.
C33_ContainerOfOwnTask ==
    \A t \in DockerTrials :
        containers[t].state # "none" =>
            imageTask[containers[t].image] = taskPath

(* ======================= properties of withTimeout ====================== *)

WithTimeoutRuns == input.fn = "withTimeout" /\ output # NotCalled

\* C34: the promise withTimeout returned is pending as long as neither event
\* has happened and is otherwise settled with the event that happened first,
\* whatever happened later; the timer is no longer armed once the given
\* promise has settled, and it fires after the promise settled in no run.
C34_SettlesOnceWithFirst ==
    WithTimeoutRuns =>
        LET w == output.value
        IN /\ w.returned = (IF w.calls = <<>> THEN Pending ELSE w.calls[1])
           /\ w.promise # Pending => w.timer # "armed"
           /\ (w.timer = "fired" /\ w.promise # Pending) =>
                  w.calls = <<TimedOut, w.promise>>
           /\ w.timer = "cleared" => w.calls = <<w.promise>>

C34_Witness ==
    /\ WithTimeoutRuns
    /\ output.value.timer = "fired"
    /\ output.value.promise.state = "resolved"
    /\ output.value.returned = TimedOut

(* ======================= termination of runEval ========================= *)

Completed ==
    /\ evalState = "returned"
    /\ Len(report) = numTrials
    /\ \A k \in 1..numTrials : report[k] # NoResult
    /\ \A i \in 0..(numTrials - 1) : phase[i] = "done" /\ cleanupCalls[i] = 1
    /\ \A w \in StartedWorkers : wstate[w] = "exited"
    /\ queue = <<>>

\* C35: when setup, the graders and cleanup return without throwing, runEval
\* eventually returns a report that holds all numTrials trials, every trial
\* has been cleaned up and every worker has left its loop, also when no
\* agent ever completes.
C35_RunEvalReturns == <>Completed

C35_Witness ==
    /\ Completed
    /\ \A i \in 0..(numTrials - 1) :
           agentState[i] = "running" /\ thrown[i] = "timed out"
    /\ numTrials > 1

(* =================== properties of the session log ====================== *)

Reported == {i \in 0..(numTrials - 1) : trialResult[i] # NoResult}

EntriesOf(i, type) ==
    {k \in 1..Len(sessionLog[i]) : sessionLog[i][k].type = type}

\* C36: once runEval has returned its report, the session log of each trial
\* in it begins with the agent_start entry and holds exactly one reward
\* entry, which is its last entry.
C36_SessionLogFinal ==
    evalState = "returned" =>
        \A i \in Reported :
            /\ sessionLog[i][1].type = "agent_start"
            /\ EntriesOf(i, "reward") = {Len(sessionLog[i])}

\* C37: the n_commands of a trial in the report is the number of command
\* entries of its session log.
C37_CommandsCounted ==
    evalState = "returned" =>
        \A i \in Reported :
            trialResult[i].n_commands = Cardinality(EntriesOf(i, "command"))

\* C38: once cleanup has been called for the workspace of a trial, the
\* agent's runCommand callback makes no call of provider.runCommand.
C38_NoCommandAfterCleanup ==
    [][\A i \in TrialIds :
           cleanupCalls[i] > 0 =>
               ~(agentState[i] = "running" /\ agentState'[i] = "awaitCmd")]_vars

(* ==================== properties of imageRefCounts ====================== *)

\* the containers of an image that setup has counted and cleanup has not yet
\* taken from the count
Counted(n) ==
    {t \in DockerTrials :
        /\ containers[t].image = n
        /\ dpc[t] \in {"injecting", "ready", "inspecting", "killing", "removing"}}

\* C39: an image name with a count entry has a count of at least 1 that is
\* the number of its containers between setup and the cleanup that takes
\* them from the count, and a setup that threw has left no container and no
\* count behind.
C39_CountsLiveContainers ==
    /\ \A n \in 1..MaxClock :
           /\ imageRefCounts[n] >= 0
           /\ imageRefCounts[n] = Cardinality(Counted(n))
    /\ \A t \in DockerTrials :
           dpc[t] = "setupFailed" => ~Exists(containers[t])

(* ============ properties of the graders of one workspace ================ *)

\* C40: the score of each deterministic grader is the one its own command
\* earns: that of the reward file the command wrote, or the binary score of
\* its exit code when it wrote none, whatever reward file the agent or an
\* earlier grader left in the workspace.
C40_ScoreOfOwnCommand ==
    (input.fn = "graders" /\ output # NotCalled) =>
        \A k \in 1..Len(output.value.results) :
            output.value.results[k] =
                DeterministicGrade(input.commands[k].exitCode,
                                   Cat(input.commands[k].writes), 1)

====
